---------------------------- MODULE Spec2Model ----------------------------
(***************************************************************************)
(* A model of the Callgrind/Cachegrind profile loader of KCachegrind       *)
(* (src/kcachegrind/cachegrindloader.cpp): format detection                *)
(* (canLoadTrace), the position parser (parsePosition), the compression    *)
(* dictionary (compressedObject/File/Function) and the line-driven loader  *)
(* state machine (loadTraceInternal).                                      *)
(*                                                                         *)
(* The source file does not define USE_FIXCOST, so "#if USE_FIXCOST" is    *)
(* false in it and the "#else" branches are the ones modelled: costs are   *)
(* added directly to the per-part projections of instructions, lines and   *)
(* calls.                                                                  *)
(*                                                                         *)
(* A line of the dump is a sequence of tokens.  A token is a pair          *)
(* <<kind, value>>: Num(n) is a maximal run of decimal digits with value   *)
(* n; Ch(c) is any other piece of text c (one character such as "*", or a  *)
(* literal such as "n=" that the loader strips with stripPrefix, or a      *)
(* name).  Header lines start with the token of their first character, as  *)
(* the loader dispatches on that character before it strips the rest of    *)
(* the key.                                                                *)
(***************************************************************************)
EXTENDS Integers, Sequences, FiniteSets, TLC

\* ------------------------------------------------------------------ bounds

\* Lines one load reads before end-of-input is forced.
MaxLines == 4
\* Lines read by the position-parser specification.
MaxPosLines == 2
\* Lines read by the dictionary specification.
MaxDictLines == 3
\* Bytes of the longest file of the progress-signal specification.
MaxFileLen == 12
\* Lines read by the cost-attribution specification.
MaxCostLines == 5
\* Chunks the detection specification builds a file from.
MaxChunks == 4
\* unsigned int arithmetic (line numbers, deltas) is modular; the modulus
\* is scaled down from 2^32 to stay within TLC's integers.
UIntMod == 65536
\* Addr arithmetic is modular (64 bit in the program), scaled down likewise.
AddrMod == 65536

\* ------------------------------------------------------------------ tokens

Num(n) == <<"num", n>>
Ch(c) == <<c, 0>>
IsNum(t) == t[1] = "num"
SP == Ch(" ")

\* Characters that compare <= '9' without being a digit.
LowChars == {" ", "#", "(", ")", "*", "+", "-", "/"}

\* c <= '9' for the first character of a token.
LE9(t) == IsNum(t) \/ t[1] \in LowChars

\* c > '9'
GT9(t) == ~LE9(t)

\* c >= '0': a digit or any character above '9'.
GE0(t) == IsNum(t) \/ t[1] \notin LowChars

\* ------------------------------------------------------- FixString reader

\* FixString::first(c): false on an empty view.
first(line) == Len(line) > 0

\* FixString::stripSpaces
RECURSIVE stripSpaces(_)
stripSpaces(line) ==
    IF Len(line) > 0 /\ Head(line) = SP THEN stripSpaces(Tail(line)) ELSE line

\* FixString::stripPrefix(s): the rest of the view and whether s was there.
stripPrefix(line, s) ==
    IF Len(line) > 0 /\ Head(line) = Ch(s)
    THEN [ok |-> TRUE, rest |-> Tail(line)]
    ELSE [ok |-> FALSE, rest |-> line]

\* FixString::stripUInt(v, stripSpaces): decodes a leading run of digits;
\* without one it fails, gives v = 0 and leaves the view alone.
stripUInt(line, skip) ==
    IF Len(line) > 0 /\ IsNum(Head(line))
    THEN [ok |-> TRUE, v |-> Head(line)[2] % UIntMod,
          rest |-> IF skip THEN stripSpaces(Tail(line)) ELSE Tail(line)]
    ELSE [ok |-> FALSE, v |-> 0, rest |-> line]

\* FixString::stripUInt64(v, stripSpaces)
stripUInt64(line, skip) ==
    IF Len(line) > 0 /\ IsNum(Head(line))
    THEN [ok |-> TRUE, v |-> Head(line)[2] % AddrMod,
          rest |-> IF skip THEN stripSpaces(Tail(line)) ELSE Tail(line)]
    ELSE [ok |-> FALSE, v |-> 0, rest |-> line]

\* ------------------------------------------------------- position parser

\* PositionSpec(): all four fields zero.
PositionSpec == [fromAddr |-> 0, toAddr |-> 0, fromLine |-> 0, toLine |-> 0]

\* The optional range suffix of the address column (lines 240-254).
AddrRange(line, pos) ==
    IF ~first(line) THEN [pos |-> pos, rest |-> line]
    ELSE IF Head(line) = Ch("+")
    THEN LET r == stripUInt(Tail(line), TRUE)
         IN  [pos |-> [pos EXCEPT !.toAddr = (pos.fromAddr + r.v) % AddrMod],
              rest |-> stripSpaces(r.rest)]
    ELSE IF Head(line) \in {Ch("-"), Ch(":")}
    THEN LET r == stripUInt64(Tail(line), TRUE)
         IN  [pos |-> [pos EXCEPT !.toAddr = r.v], rest |-> stripSpaces(r.rest)]
    ELSE [pos |-> pos, rest |-> stripSpaces(line)]

\* The address column (lines 210-264): ok is FALSE where the code returns
\* false; pos holds what has been written to newPos by then.
AddrColumn(line, cur, newPos) ==
    IF ~first(line) THEN [ok |-> FALSE, pos |-> newPos, rest |-> line]
    ELSE LET c == Head(line)
             t == Tail(line)
         IN
         IF c = Ch("*")
         THEN LET r == AddrRange(t, [newPos EXCEPT !.fromAddr = cur.fromAddr,
                                                   !.toAddr = cur.toAddr])
              IN  [ok |-> TRUE, pos |-> r.pos, rest |-> r.rest]
         ELSE IF c = Ch("+")
         THEN LET d == stripUInt(t, FALSE)
                  a == (cur.fromAddr + d.v) % AddrMod
                  r == AddrRange(d.rest, [newPos EXCEPT !.fromAddr = a, !.toAddr = a])
              IN  [ok |-> TRUE, pos |-> r.pos, rest |-> r.rest]
         ELSE IF c = Ch("-")
         THEN LET d == stripUInt(t, FALSE)
                  a == (cur.fromAddr - d.v) % AddrMod
                  r == AddrRange(d.rest, [newPos EXCEPT !.fromAddr = a, !.toAddr = a])
              IN  [ok |-> TRUE, pos |-> r.pos, rest |-> r.rest]
         ELSE IF GE0(c)
         THEN LET d == stripUInt64(line, FALSE)
                  r == AddrRange(d.rest, [newPos EXCEPT !.fromAddr = d.v, !.toAddr = d.v])
              IN  [ok |-> TRUE, pos |-> r.pos, rest |-> r.rest]
         ELSE [ok |-> FALSE, pos |-> newPos, rest |-> line]

\* The optional range suffix of the line column (lines 299-311).
LineRange(line, pos) ==
    IF ~first(line) THEN [pos |-> pos, rest |-> line]
    ELSE IF Head(line) = Ch("+")
    THEN LET r == stripUInt(Tail(line), TRUE)
         IN  [pos |-> [pos EXCEPT !.toLine = (pos.fromLine + r.v) % UIntMod],
              rest |-> stripSpaces(r.rest)]
    ELSE IF Head(line) \in {Ch("-"), Ch(":")}
    THEN LET r == stripUInt(Tail(line), TRUE)
         IN  [pos |-> [pos EXCEPT !.toLine = r.v], rest |-> stripSpaces(r.rest)]
    ELSE [pos |-> pos, rest |-> stripSpaces(line)]

\* "diff = currentPos.fromLine < diff;" (line 288): the comparison's value,
\* 1 in this branch, is what is stored in diff.
ClampedDiff(fromLine, diff) == IF fromLine < diff THEN 1 ELSE 0

\* The "-N" form of the line column (lines 283-292).
MinusLine(fromLine, diff) ==
    LET d == IF fromLine < diff THEN ClampedDiff(fromLine, diff) ELSE diff
    IN  (fromLine - d) % UIntMod

\* The line column (lines 266-321).
LineColumn(line, cur, newPos) ==
    IF ~first(line) THEN [ok |-> FALSE, pos |-> newPos, rest |-> line]
    ELSE LET c == Head(line)
             t == Tail(line)
         IN
         IF GT9(c) THEN [ok |-> FALSE, pos |-> newPos, rest |-> line]
         ELSE IF c = Ch("*")
         THEN LET r == LineRange(t, [newPos EXCEPT !.fromLine = cur.fromLine,
                                                   !.toLine = cur.toLine])
              IN  [ok |-> TRUE, pos |-> r.pos, rest |-> r.rest]
         ELSE IF c = Ch("+")
         THEN LET d == stripUInt(t, FALSE)
                  l == (cur.fromLine + d.v) % UIntMod
                  r == LineRange(d.rest, [newPos EXCEPT !.fromLine = l, !.toLine = l])
              IN  [ok |-> TRUE, pos |-> r.pos, rest |-> r.rest]
         ELSE IF c = Ch("-")
         THEN LET d == stripUInt(t, FALSE)
                  l == MinusLine(cur.fromLine, d.v)
                  r == LineRange(d.rest, [newPos EXCEPT !.fromLine = l, !.toLine = l])
              IN  [ok |-> TRUE, pos |-> r.pos, rest |-> r.rest]
         ELSE IF GE0(c)
         THEN LET d == stripUInt(line, FALSE)
                  r == LineRange(d.rest, [newPos EXCEPT !.fromLine = d.v, !.toLine = d.v])
              IN  [ok |-> TRUE, pos |-> r.pos, rest |-> r.rest]
         ELSE [ok |-> FALSE, pos |-> newPos, rest |-> line]

\* A parser that would take the "*", "+N" and "-N" forms relative to what
\* newPos held before the call.
relativeToNewPos(cur, newPos) == newPos

\* The position the "*", "+N" and "-N" forms are relative to: the member
\* currentPos (lines 217-229 and 275-291), whatever newPos refers to.
relativeTo(cur, newPos) == cur

\* parsePosition(line, newPos): reads the cursor cur (currentPos), writes
\* newPos field by field as the columns are decoded.  pos is the content of
\* newPos when the function returns, also when it returns false.
parsePosition(line, cur, newPos, hasAddr, hasLine) ==
    LET a == IF hasAddr THEN AddrColumn(line, relativeTo(cur, newPos), newPos)
             ELSE [ok |-> TRUE, pos |-> newPos, rest |-> line]
    IN  IF ~a.ok THEN a
        ELSE IF hasLine
             \* the caller passes currentPos itself as newPos in the main
             \* loop, so the line column reads the cursor of the same object
             THEN LineColumn(a.rest, relativeTo(cur, newPos), a.pos)
             ELSE a


\* ------------------------------------------------------------ graph store

\* A null pointer to an object or a file.
NULL == "<null>"
\* A null pointer to a function.
NoFn == [name |-> NULL, file |-> NULL, object |-> NULL]
\* A null pointer to an instruction / a line.
NoInstr == [fn |-> NoFn, addr |-> 0, null |-> TRUE]
NoLine == [fn |-> NoFn, file |-> NULL, lineno |-> 0, null |-> TRUE]

\* currentFunctionSource = 0
NoSource == [fn |-> NoFn, file |-> NULL, null |-> TRUE]

\* _fileDummy, _objDummy, _functionDummy (constructor, lines 145-149)
Dummy == "???"

\* TraceData::object(name), TraceData::file(name): the canonical entity of
\* a name, created on first use; the entity is identified with its name.
object(name) == name
file(name) == name

\* TraceData::function(name, file, object): the canonical function of the
\* triple.
function(name, f, o) == [name |-> name, file |-> f, object |-> o]

\* TraceFunction::instr(addr, true); the loader handles a null result
\* (lines 1080-1086), found tells whether the store supplied the entity.
instr(fn, addr, found) ==
    IF found THEN [fn |-> fn, addr |-> addr, null |-> FALSE] ELSE NoInstr

\* TraceFunction::line(file, lineno, true)
line(fn, f, lineno) == [fn |-> fn, file |-> f, lineno |-> lineno, null |-> FALSE]

\* TraceFunction::sourceFile(file, true): the source projection of a
\* function in a file.
sourceFile(fn, f) == [fn |-> fn, file |-> f, null |-> FALSE]

\* ---------------------------------------------------- cost vectors

\* The text of a cost vector: the numbers of the view, in order.
RECURSIVE Numbers(_)
Numbers(toks) ==
    IF Len(toks) = 0 THEN << >>
    ELSE IF IsNum(Head(toks)) THEN <<Head(toks)[2]>> \o Numbers(Tail(toks))
    ELSE Numbers(Tail(toks))

\* TraceCost::set(subMapping, line): one value per event of the schema,
\* read from the view, 0 where the view has no more numbers.
CostOf(sm, toks) ==
    LET ns == Numbers(toks)
    IN  [i \in 1..Len(sm.events) |-> IF i <= Len(ns) THEN ns[i] ELSE 0]

VecAdd(a, b) ==
    [i \in 1..(IF Len(a) > Len(b) THEN Len(a) ELSE Len(b)) |->
        (IF i <= Len(a) THEN a[i] ELSE 0) + (IF i <= Len(b) THEN b[i] ELSE 0)]

\* TraceCost::addCost(subMapping, line) on the projection key of map m.
AddCost(m, key, c) ==
    IF key \in DOMAIN m THEN [m EXCEPT ![key] = VecAdd(@, c)]
    ELSE m @@ (key :> c)

RECURSIVE SumOver(_, _)
SumOver(m, keys) ==
    IF keys = {} THEN << >>
    ELSE LET k == CHOOSE x \in keys : TRUE
         IN  VecAdd(m[k], SumOver(m, keys \ {k}))

\* ------------------------------------------------- compression dictionary

\* clearCompression (lines 327-338): initial sizes of the three vectors.
ObjVecSize == 100
FileVecSize == 1000
FnVecSize == 10000

EmptyVec(n) == [size |-> n, slots |-> << >>]

\* name.find(')'): the index of the first ")" token, 0 when there is none.
RECURSIVE FindClose(_, _)
FindClose(name, i) ==
    IF i > Len(name) THEN 0
    ELSE IF name[i] = Ch(")") THEN i
    ELSE FindClose(name, i + 1)

\* (name[0] == '(') && name[1].isDigit()
IsCompressed(name) ==
    Len(name) >= 2 /\ name[1] = Ch("(") /\ IsNum(name[2])

\* name.mid(1, p-1).toInt(): the number between the parentheses, 0 when the
\* text between them is not a number.
IndexOf(name, p) == IF p = 3 THEN name[2][2] ELSE 0

\* The text of a name: the token of a one-token name.
Text(name) == IF Len(name) >= 1 THEN name[1][1] ELSE ""

\* An insert that keeps what a slot already holds: the dictionary a
\* first-definition-wins table would be.
VecInsertKeepOld(vec, index, o) ==
    [size |-> IF vec.size <= index THEN index * 2 ELSE vec.size,
     slots |-> [i \in DOMAIN vec.slots \cup {index} |->
                  IF i \in DOMAIN vec.slots THEN vec.slots[i] ELSE o]]

\* A resize that would drop the slots the vector held.
VecInsertResizeDrops(vec, index, o) ==
    IF vec.size <= index
    THEN [size |-> index * 2, slots |-> [i \in {index} |-> o]]
    ELSE [size |-> vec.size,
          slots |-> [i \in DOMAIN vec.slots \cup {index} |->
                       IF i = index THEN o ELSE vec.slots[i]]]

\* Q3PtrVector::insert(index, o), after the resize of lines 359-366.
VecInsert(vec, index, o) ==
    [size |-> IF vec.size <= index THEN index * 2 ELSE vec.size,
     slots |-> [i \in DOMAIN vec.slots \cup {index} |->
                  IF i = index THEN o ELSE vec.slots[i]]]

\* Q3PtrVector::at(index) for index < size: null for an empty slot.
VecAt(vec, index, null) ==
    IF index \in DOMAIN vec.slots THEN vec.slots[index] ELSE null

\* compressedObject(name) (lines 341-380): the entity (NULL for none) and
\* _objectVector afterwards.
compressedObject(name, vec) ==
    IF ~IsCompressed(name) THEN [e |-> object(Text(name)), vec |-> vec]
    ELSE LET p == FindClose(name, 1)
         IN  IF p < 3 THEN [e |-> NULL, vec |-> vec]
             ELSE LET index == IndexOf(name, p)
                  IN  IF Len(name) > p
                      THEN LET o == object(Text(stripSpaces(SubSeq(name, p + 1, Len(name)))))
                           IN  [e |-> o, vec |-> VecInsert(vec, index, o)]
                      ELSE IF vec.size <= index THEN [e |-> NULL, vec |-> vec]
                      ELSE [e |-> VecAt(vec, index, NULL), vec |-> vec]

\* compressedFile(name) (lines 385-424)
compressedFile(name, vec) ==
    IF ~IsCompressed(name) THEN [e |-> file(Text(name)), vec |-> vec]
    ELSE LET p == FindClose(name, 1)
         IN  IF p < 3 THEN [e |-> NULL, vec |-> vec]
             ELSE LET index == IndexOf(name, p)
                  IN  IF Len(name) > p
                      THEN LET f == file(Text(stripSpaces(SubSeq(name, p + 1, Len(name)))))
                           IN  [e |-> f, vec |-> VecInsert(vec, index, f)]
                      ELSE IF vec.size <= index THEN [e |-> NULL, vec |-> vec]
                      ELSE [e |-> VecAt(vec, index, NULL), vec |-> vec]

\* TraceFunction::object(): the object the function was created with, or
\* the one setObject gave it since.
objectOf(fn, fo) == IF fn \in DOMAIN fo THEN fo[fn] ELSE fn.object

\* A binding that takes the object of every reference with an object.
setFunctionObjectAlways(fn, o, fo) ==
    IF o # NULL /\ objectOf(fn, fo) # o
    THEN [g \in DOMAIN fo \cup {fn} |-> IF g = fn THEN o ELSE fo[g]]
    ELSE fo

\* Lines 483-492: the object of a referenced function is set when it has
\* none and one is given; a mismatch is only reported.
setFunctionObject(fn, o, fo) ==
    IF objectOf(fn, fo) = NULL /\ o # NULL
    THEN [g \in DOMAIN fo \cup {fn} |-> IF g = fn THEN o ELSE fo[g]]
    ELSE fo

\* Lines 487-491: the mismatch report evaluates object->name(); with a
\* null object given for a function that has one, this dereferences null.
NullObjectReported(fn, o, fo) ==
    objectOf(fn, fo) # NULL /\ o = NULL

\* compressedFunction(name, file, object) (lines 426-496): the function
\* (NoFn for none), _functionVector and the object bindings afterwards,
\* and whether the call dereferenced a null object.
compressedFunction(name, f, o, vec, fo) ==
    LET none == [e |-> NoFn, vec |-> vec, fo |-> fo, ub |-> FALSE]
    IN  IF ~IsCompressed(name)
        THEN [none EXCEPT !.e = function(Text(name), f, o)]
        ELSE LET p == FindClose(name, 1)
             IN  IF p < 3 THEN none
                 ELSE LET index == IndexOf(name, p)
                      IN  IF Len(name) > p
                          THEN LET fn == function(Text(stripSpaces(SubSeq(name, p + 1, Len(name)))), f, o)
                               IN  [none EXCEPT !.e = fn, !.vec = VecInsert(vec, index, fn)]
                          ELSE IF vec.size <= index THEN none
                          ELSE LET fn == VecAt(vec, index, NoFn)
                               IN  IF fn = NoFn THEN none
                                   ELSE [none EXCEPT !.e = fn,
                                                     !.fo = setFunctionObject(fn, o, fo),
                                                     !.ub = NullObjectReported(fn, o, fo)]

\* ------------------------------------------------------------------ state

VARIABLES
    result,                \* "loading", what loadTraceInternal returned, or
                           \* "crashed"
    lineNo,                \* _lineNo
    subMapping,            \* the event schema, null until "events:"
    nextLineType,          \* the pending record type
    hasLineInfo, hasAddrInfo,
    currentPos, targetPos,
    currentObject, currentFile, currentFunction, currentFunctionSource,
    currentInstr, currentLine,
    currentCalledObject, currentCalledFile, currentCalledFunction,
    currentCallCount,
    currentJumpToFile, currentJumpToFunction, jumpsFollowed, jumpsExecuted,
    objectVector, fileVector, functionVector,  \* _objectVector, ...
    functionObject,        \* the object of each function that setObject filled in
    instrCost, lineCost,   \* per-part cost of each instruction / line
    callCost,              \* per-part count and cost of each instr/line call
    totals, partValid,     \* the part's totals vector; invalidate() clears partValid
    USE_FIXCOST,           \* the build setting of fixcost.h, fixed for a run
    fixCosts, fixCallCosts, fixJumps,  \* the FixCost / FixCallCost / FixJump
                           \* records constructed when USE_FIXCOST is set
    fileChunks, canLoad,    \* the file given to canLoadTrace, and its answer
    fileLen, fileCurrent,  \* file.len() and file.current() of the FixFile
    statusProgress,        \* the local statusProgress of loadTraceInternal
    emitted,               \* the percents updateStatus was emitted with
    loaders,               \* the members of each CachegrindLoader object
    callState,             \* each loadTrace call: "idle", "loading" or "done"
    lastCall,              \* history: the loadTrace call that ran last
    hist,                  \* history: the line just read and the state before it
    acceptedPos,           \* history: currentPos after the last accepted position line
    lastDef                \* history: the entity each id was last defined as

ctlVars == <<result, lineNo, subMapping, nextLineType>>
posVars == <<hasLineInfo, hasAddrInfo, currentPos, targetPos>>
flagVars == <<hasLineInfo, hasAddrInfo>>
curVars == <<currentObject, currentFile, currentFunction, currentFunctionSource,
             currentInstr, currentLine>>
callVars == <<currentCalledObject, currentCalledFile, currentCalledFunction,
              currentCallCount>>
jumpVars == <<currentJumpToFile, currentJumpToFunction, jumpsFollowed, jumpsExecuted>>
dictVars == <<objectVector, fileVector, functionVector, functionObject>>
costVars == <<instrCost, lineCost, callCost, totals, partValid>>
buildVars == <<USE_FIXCOST>>
fixVars == <<fixCosts, fixCallCosts, fixJumps>>
detectVars == <<fileChunks, canLoad>>
loadVars == <<loaders, callState, lastCall>>
statusVars == <<fileLen, fileCurrent, statusProgress, emitted>>
histVars == <<hist, acceptedPos, lastDef>>
vars == <<ctlVars, posVars, curVars, callVars, jumpVars, dictVars, costVars,
          buildVars, fixVars, detectVars, loadVars, statusVars, histVars>>

\* enum lineType (line 52)
SelfCost == "SelfCost"
CallCost == "CallCost"
BoringJump == "BoringJump"
CondJump == "CondJump"

NoMapping == [null |-> TRUE, events |-> << >>]

\* hist: kind, ln, accepted: the handler the last line reached, the line,
\* and whether parsePosition (or the jump line's && chain) succeeded on it;
\* prePos, preAccepted, preNull, preType: currentPos, acceptedPos, whether
\* subMapping was null and nextLineType before the line; resName, resFn:
\* what compressedX returned for it; mixed: a cost has been attributed
\* while not both position columns were present; summary: a "summary:"
\* line has been read; jump: the target position and the counters of the
\* last valid "jump=" or "jcnd=" line; cancel: the caller has asked for the
\* load to be cancelled.
NoJump == [target |-> PositionSpec, executed |-> 0, followed |-> 0]

NoHist == [kind |-> "none", ln |-> << >>, accepted |-> FALSE,
           prePos |-> PositionSpec, preTarget |-> PositionSpec,
           preAccepted |-> PositionSpec,
           preNull |-> TRUE, preType |-> SelfCost,
           resName |-> NULL, resFn |-> NoFn, mixed |-> FALSE, summary |-> FALSE,
           jump |-> NoJump, cancel |-> FALSE]

NoDefs == [objects |-> << >>, files |-> << >>, functions |-> << >>]

\* The two loadTrace calls in progress at the same time.
Calls == {1, 2}

\* The members of a CachegrindLoader object that no loadTraceInternal has
\* run on yet.
NoLoader ==
    [lineNo |-> 0, nextLineType |-> NULL,
     currentObject |-> NULL, currentFile |-> NULL, currentFunction |-> NoFn,
     objectVector |-> EmptyVec(0), fileVector |-> EmptyVec(0),
     functionVector |-> EmptyVec(0)]

\* The loader at the top of the main loop: clearCompression, clearPosition
\* and lines 729-738 have run; canLoadTrace has not been asked yet.
Init ==
    /\ result = "loading"
    /\ lineNo = 0
    /\ subMapping = NoMapping
    /\ nextLineType = SelfCost
    /\ hasLineInfo = TRUE
    /\ hasAddrInfo = FALSE
    /\ currentPos = PositionSpec
    /\ targetPos = PositionSpec
    /\ currentObject = NULL
    /\ currentFile = NULL
    /\ currentFunction = NoFn
    /\ currentFunctionSource = NoSource
    /\ currentInstr = NoInstr
    /\ currentLine = NoLine
    /\ currentCalledObject = NULL
    /\ currentCalledFile = NULL
    /\ currentCalledFunction = NoFn
    /\ currentCallCount = 0
    /\ currentJumpToFile = NULL
    /\ currentJumpToFunction = NoFn
    /\ jumpsFollowed = 0
    /\ jumpsExecuted = 0
    /\ objectVector = EmptyVec(ObjVecSize)
    /\ fileVector = EmptyVec(FileVecSize)
    /\ functionVector = EmptyVec(FnVecSize)
    /\ functionObject = << >>
    /\ instrCost = << >>
    /\ lineCost = << >>
    /\ callCost = << >>
    /\ totals = << >>
    /\ partValid = TRUE
    /\ USE_FIXCOST \in BOOLEAN
    /\ fixCosts = << >>
    /\ fixCallCosts = << >>
    /\ fixJumps = << >>
    /\ fileChunks = << >>
    /\ canLoad = "unasked"
    /\ loaders = [i \in Calls |-> NoLoader]
    /\ callState = [c \in Calls |-> "idle"]
    /\ lastCall = 0
    /\ fileLen = 0
    /\ fileCurrent = 0
    /\ statusProgress = 0
    /\ emitted = << >>
    /\ hist = NoHist
    /\ acceptedPos = PositionSpec
    /\ lastDef = NoDefs

\* ------------------------------------------------------------- dispatch

\* The classification of a line by the main loop (lines 749-1057): the
\* handler the line reaches and the view left after the key.  A first
\* character <= '9' sends the line to parsePosition; "summary:" is tried
\* in case 's', which has no break and runs on into case 'r'.
Classify(ln) ==
    IF Len(ln) = 0 THEN [h |-> "empty", rest |-> ln]
    ELSE IF LE9(Head(ln)) THEN [h |-> "position", rest |-> ln]
    ELSE LET c == Head(ln)[1]
             t == Tail(ln)
             P(s) == stripPrefix(t, s).ok
             To(h) == [h |-> h, rest |-> Tail(t)]
             Invalid == [h |-> "invalid", rest |-> t]
         IN
         CASE c = "f" ->
                IF P("l=") \/ P("i=") \/ P("e=") THEN To("file")
                ELSE IF P("n=") THEN To("function") ELSE Invalid
           [] c = "c" ->
                IF P("ob=") THEN To("calledObject")
                ELSE IF P("fi=") THEN To("calledFile")
                ELSE IF P("fn=") THEN To("calledFunction")
                ELSE IF P("alls=") THEN To("calls")
                ELSE IF P("md:") \/ P("reator:") THEN To("meta") ELSE Invalid
           [] c = "j" ->
                IF P("cnd=") THEN To("jcnd")
                ELSE IF P("ump=") THEN To("jump")
                ELSE IF P("fi=") THEN To("jumpFile")
                ELSE IF P("fn=") THEN To("jumpFunction") ELSE Invalid
           [] c = "o" -> IF P("b=") THEN To("object") ELSE Invalid
           [] c = "t" ->
                IF P("otals:") \/ P("hread:") \/ P("imeframe (BB):")
                THEN To("meta") ELSE Invalid
           [] c = "d" -> IF P("esc:") THEN To("meta") ELSE Invalid
           [] c = "e" ->
                IF P("vents:") THEN To("events")
                ELSE IF P("vent:") THEN To("meta") ELSE Invalid
           [] c = "p" ->
                IF P("art:") \/ P("id:") THEN To("meta")
                ELSE IF P("ositions:") THEN To("positions") ELSE Invalid
           [] c = "v" -> IF P("ersion:") THEN To("meta") ELSE Invalid
           [] c = "s" ->
                IF P("ummary:") THEN To("summary")
                ELSE IF P("calls=") THEN To("rcalls") ELSE Invalid
           [] c = "r" -> IF P("calls=") THEN To("rcalls") ELSE Invalid
           [] OTHER -> Invalid

\* What every handler records of the line it read.
Read(kind, ln, accepted) ==
    [NoHist EXCEPT !.kind = kind, !.ln = ln, !.accepted = accepted,
                   !.prePos = currentPos, !.preTarget = targetPos,
                   !.preAccepted = acceptedPos,
                   !.preNull = subMapping.null, !.preType = nextLineType,
                   !.mixed = hist.mixed, !.summary = hist.summary,
                   !.jump = hist.jump, !.cancel = hist.cancel]

\* while (file.nextLine(line)) { _lineNo++; ...
Loading == result = "loading"

\* --------------------------------------------- history of definitions

\* The value "(N) name" of an entity-binding line, read by its layout.
IsDef(val) ==
    /\ Len(val) = 5
    /\ val[1] = Ch("(") /\ IsNum(val[2]) /\ val[3] = Ch(")") /\ val[4] = SP

\* The value "(N)".
IsRef(val) ==
    /\ Len(val) = 3
    /\ val[1] = Ch("(") /\ IsNum(val[2]) /\ val[3] = Ch(")")

Put(m, n, e) == [i \in DOMAIN m \cup {n} |-> IF i = n THEN e ELSE m[i]]

\* lastDef after a line of namespace ns with value val that the graph
\* store resolves to entity e when val is a definition.
NoteDef(ns, val, e) ==
    IF IsDef(val) THEN [lastDef EXCEPT ![ns] = Put(@, val[2][2], e)] ELSE lastDef

\* ---------------------------------------------------- position setters

\* ensureObject / ensureFile / ensureFunction (lines 500-510, 545-555,
\* 590-600): the entity the cursor holds afterwards.
ensureObject == IF currentObject = NULL THEN object(Dummy) ELSE currentObject

ensureFile == IF currentFile = NULL THEN file(Dummy) ELSE currentFile

ensureFunction ==
    IF currentFunction = NoFn THEN function(Dummy, NULL, NULL) ELSE currentFunction

\* The '???' fallback of setObject / setCalledObject (lines 515-521,
\* 532-538), setFile / setCalledFile (lines 561-567, 578-584) and
\* setFunction / setCalledFunction (lines 611-617, 645-651).
ObjectOrDummy(o) == IF o = NULL THEN object(Dummy) ELSE o

FileOrDummy(f) == IF f = NULL THEN file(Dummy) ELSE f

\* A setter without the fallback: the cursor takes what was resolved.
FunctionKept(fn) == fn

FunctionOrDummy(fn) == IF fn = NoFn THEN function(Dummy, NULL, NULL) ELSE fn

\* A line no handler changes anything for: "continue" with nothing done.
SkipLine(kind, ln) ==
    /\ lineNo' = lineNo + 1
    /\ hist' = Read(kind, ln, FALSE)
    /\ UNCHANGED <<result, subMapping, nextLineType, posVars, curVars, callVars,
                   jumpVars, dictVars, costVars, buildVars, loadVars, fixVars, detectVars, acceptedPos, lastDef>>

\* The same where the bytes read and the progress signal are not followed.
Skip(kind, ln) == SkipLine(kind, ln) /\ UNCHANGED statusVars

\* if (!line.first(c)) continue;   (line 750)
EmptyLine(ln) ==
    /\ Loading
    /\ Classify(ln).h = "empty"
    /\ Skip("empty", ln)

\* cmd:, creator:, totals:, thread:, timeframe (BB):, desc:, event:, part:,
\* pid:, version: set part metadata only.
MetaLine(ln) ==
    /\ Loading
    /\ Classify(ln).h = "meta"
    /\ Skip("meta", ln)

\* The warning after the switch (lines 1054-1056).
InvalidLine(ln) ==
    /\ Loading
    /\ Classify(ln).h = "invalid"
    /\ Skip("invalid", ln)

\* ob=  -> setObject (lines 512-526)
ObjectLine(ln) ==
    /\ Loading
    /\ Classify(ln).h = "object"
    /\ LET val == Classify(ln).rest
           r == compressedObject(val, objectVector)
       IN  /\ objectVector' = r.vec
           /\ currentObject' = ObjectOrDummy(r.e)
           /\ currentFunction' = NoFn
           /\ hist' = [Read("object", ln, FALSE) EXCEPT !.resName = r.e]
           /\ lastDef' = NoteDef("objects", val, r.e)
    /\ lineNo' = lineNo + 1
    /\ UNCHANGED <<result, subMapping, nextLineType, posVars, currentFile,
                   currentFunctionSource, currentInstr, currentLine, callVars, jumpVars, fileVector,
                   functionVector, functionObject, costVars, buildVars, statusVars, loadVars, fixVars, detectVars, acceptedPos>>

\* fl=, fi=, fe=  -> setFile (lines 557-572)
FileLine(ln) ==
    /\ Loading
    /\ Classify(ln).h = "file"
    /\ LET val == Classify(ln).rest
           r == compressedFile(val, fileVector)
       IN  /\ fileVector' = r.vec
           /\ currentFile' = FileOrDummy(r.e)
           /\ currentLine' = NoLine
           /\ hist' = [Read("file", ln, FALSE) EXCEPT !.resName = r.e]
           /\ lastDef' = NoteDef("files", val, r.e)
    /\ lineNo' = lineNo + 1
    /\ UNCHANGED <<result, subMapping, nextLineType, posVars, currentObject,
                   currentFunction, currentFunctionSource, currentInstr, callVars, jumpVars,
                   objectVector, functionVector, functionObject, costVars, buildVars, statusVars, loadVars, fixVars, detectVars, acceptedPos>>

\* fn=  -> setFunction (lines 602-626)
setFunctionLine(ln) ==
    /\ Loading
    /\ Classify(ln).h = "function"
    /\ LET val == Classify(ln).rest
           f == ensureFile
           o == ensureObject
           r == compressedFunction(val, f, o, functionVector, functionObject)
       IN  /\ functionVector' = r.vec
           /\ functionObject' = r.fo
           /\ currentFile' = f
           /\ currentObject' = o
           /\ currentFunction' = FunctionOrDummy(r.e)
           /\ currentFunctionSource' = NoSource
           /\ currentLine' = NoLine
           /\ hist' = [Read("function", ln, FALSE) EXCEPT !.resFn = r.e]
           /\ lastDef' = NoteDef("functions", val, r.e)
    /\ lineNo' = lineNo + 1
    /\ UNCHANGED <<result, subMapping, nextLineType, posVars, currentInstr,
                   callVars, jumpVars, objectVector, fileVector, costVars,
                   buildVars, loadVars, fixVars, detectVars, acceptedPos>>

\* fn= where the bytes read are not followed: the progress signal of lines
\* 782-793 changes nothing of the loader.
FunctionLine(ln) == setFunctionLine(ln) /\ UNCHANGED statusVars

\* cob=  -> setCalledObject (lines 528-541)
CalledObjectLine(ln) ==
    /\ Loading
    /\ Classify(ln).h = "calledObject"
    /\ LET val == Classify(ln).rest
           r == compressedObject(val, objectVector)
       IN  /\ objectVector' = r.vec
           /\ currentCalledObject' = ObjectOrDummy(r.e)
           /\ hist' = [Read("calledObject", ln, FALSE) EXCEPT !.resName = r.e]
           /\ lastDef' = NoteDef("objects", val, r.e)
    /\ lineNo' = lineNo + 1
    /\ UNCHANGED <<result, subMapping, nextLineType, posVars, curVars,
                   currentCalledFile, currentCalledFunction, currentCallCount,
                   jumpVars, fileVector, functionVector, functionObject, costVars, buildVars, statusVars, loadVars, fixVars, detectVars,
                   acceptedPos>>

\* cfi=  -> setCalledFile (lines 574-587)
CalledFileLine(ln) ==
    /\ Loading
    /\ Classify(ln).h = "calledFile"
    /\ LET val == Classify(ln).rest
           r == compressedFile(val, fileVector)
       IN  /\ fileVector' = r.vec
           /\ currentCalledFile' = FileOrDummy(r.e)
           /\ hist' = [Read("calledFile", ln, FALSE) EXCEPT !.resName = r.e]
           /\ lastDef' = NoteDef("files", val, r.e)
    /\ lineNo' = lineNo + 1
    /\ UNCHANGED <<result, subMapping, nextLineType, posVars, curVars,
                   currentCalledObject, currentCalledFunction, currentCallCount,
                   jumpVars, objectVector, functionVector, functionObject, costVars, buildVars, statusVars, loadVars, fixVars, detectVars,
                   acceptedPos>>

\* The process ends in the mismatch report of compressedFunction.
Crashed(kind, ln, fn) ==
    /\ result' = "crashed"
    /\ hist' = [Read(kind, ln, FALSE) EXCEPT !.resFn = fn]
    /\ UNCHANGED <<subMapping, nextLineType, posVars, curVars, callVars,
                   jumpVars, dictVars, costVars, buildVars, statusVars, loadVars, fixVars, detectVars,
                   acceptedPos, lastDef>>

\* cfn=  -> setCalledFunction (lines 628-657)
CalledFunctionLine(ln) ==
    /\ Loading
    /\ Classify(ln).h = "calledFunction"
    /\ lineNo' = lineNo + 1
    /\ LET val == Classify(ln).rest
           o == IF currentCalledObject = NULL THEN currentObject ELSE currentCalledObject
           f == IF currentCalledFile = NULL THEN currentFile ELSE currentCalledFile
           r == compressedFunction(val, f, o, functionVector, functionObject)
       IN  \/ /\ functionVector' = r.vec
              /\ functionObject' = r.fo
              /\ currentCalledObject' = o
              /\ currentCalledFile' = f
              /\ currentCalledFunction' = FunctionOrDummy(r.e)
              /\ hist' = [Read("calledFunction", ln, FALSE) EXCEPT !.resFn = r.e]
              /\ lastDef' = NoteDef("functions", val, r.e)
              /\ UNCHANGED <<result, subMapping, nextLineType, posVars, curVars,
                             currentCallCount, jumpVars, objectVector, fileVector,
                             costVars, buildVars, statusVars, loadVars, fixVars, detectVars, acceptedPos>>
           \/ /\ r.ub
              /\ Crashed("calledFunction", ln, r.e)

\* jfi=  (lines 886-890)
JumpFileLine(ln) ==
    /\ Loading
    /\ Classify(ln).h = "jumpFile"
    /\ LET val == Classify(ln).rest
           r == compressedFile(val, fileVector)
       IN  /\ fileVector' = r.vec
           /\ currentJumpToFile' = r.e
           /\ hist' = [Read("jumpFile", ln, FALSE) EXCEPT !.resName = r.e]
           /\ lastDef' = NoteDef("files", val, r.e)
    /\ lineNo' = lineNo + 1
    /\ UNCHANGED <<result, subMapping, nextLineType, posVars, curVars, callVars,
                   currentJumpToFunction, jumpsFollowed, jumpsExecuted,
                   objectVector, functionVector, functionObject, costVars, buildVars, statusVars, loadVars, fixVars, detectVars, acceptedPos>>

\* jfn=  (lines 892-905)
JumpFunctionLine(ln) ==
    /\ Loading
    /\ Classify(ln).h = "jumpFunction"
    /\ lineNo' = lineNo + 1
    /\ LET val == Classify(ln).rest
           f == IF currentJumpToFile = NULL THEN currentFile ELSE currentJumpToFile
           r == compressedFunction(val, f, currentObject, functionVector, functionObject)
       IN  \/ /\ functionVector' = r.vec
              /\ functionObject' = r.fo
              /\ currentJumpToFile' = f
              /\ currentJumpToFunction' = r.e
              /\ hist' = [Read("jumpFunction", ln, FALSE) EXCEPT !.resFn = r.e]
              /\ lastDef' = NoteDef("functions", val, r.e)
              /\ UNCHANGED <<result, subMapping, nextLineType, posVars, curVars, callVars,
                             jumpsFollowed, jumpsExecuted, objectVector, fileVector,
                             costVars, buildVars, statusVars, loadVars, fixVars, detectVars, acceptedPos>>
           \/ /\ r.ub
              /\ Crashed("jumpFunction", ln, r.e)

\* ------------------------------------------------ record-arming lines

\* calls=  (lines 820-826)
CallsLine(ln) ==
    /\ Loading
    /\ Classify(ln).h = "calls"
    /\ currentCallCount' = stripUInt64(Classify(ln).rest, TRUE).v
    /\ nextLineType' = CallCost
    /\ lineNo' = lineNo + 1
    /\ hist' = Read("calls", ln, FALSE)
    /\ UNCHANGED <<result, subMapping, posVars, curVars, currentCalledObject,
                   currentCalledFile, currentCalledFunction, jumpVars, dictVars,
                   costVars, buildVars, statusVars, loadVars, fixVars, detectVars, acceptedPos, lastDef>>

\* rcalls=  (lines 1034-1047), also reached from case 's'
RcallsLine(ln) ==
    /\ Loading
    /\ Classify(ln).h = "rcalls"
    /\ currentCallCount' = stripUInt64(Classify(ln).rest, TRUE).v
    /\ nextLineType' = CallCost
    /\ lineNo' = lineNo + 1
    /\ hist' = Read("rcalls", ln, FALSE)
    /\ UNCHANGED <<result, subMapping, posVars, curVars, currentCalledObject,
                   currentCalledFile, currentCalledFunction, jumpVars, dictVars,
                   costVars, buildVars, statusVars, loadVars, fixVars, detectVars, acceptedPos, lastDef>>

\* A jump line that arms its record type whether valid or not.
TypeArmedByAnyJumpLine(valid, armed, t) == armed

\* nextLineType after a jcnd= or jump= line (lines 862-867, 877-882): armed
\* when the line is valid, left alone when it is not.
TypeAfterJumpLine(valid, armed, t) == IF valid THEN armed ELSE t

\* jcnd=  (lines 853-869): the && chain stops at the first failure; what
\* was written before it stays written.
JcndLine(ln) ==
    /\ Loading
    /\ Classify(ln).h = "jcnd"
    /\ LET a == stripUInt64(Classify(ln).rest, TRUE)
           b == stripPrefix(a.rest, "/")
           c == stripUInt64(b.rest, TRUE)
           d == parsePosition(c.rest, currentPos, targetPos, hasAddrInfo, hasLineInfo)
           valid == a.ok /\ b.ok /\ c.ok /\ d.ok
       IN  /\ jumpsFollowed' = a.v
           /\ jumpsExecuted' = IF a.ok /\ b.ok THEN c.v ELSE jumpsExecuted
           /\ targetPos' = IF a.ok /\ b.ok /\ c.ok THEN d.pos ELSE targetPos
           /\ nextLineType' = TypeAfterJumpLine(valid, CondJump, nextLineType)
           /\ hist' = [Read("jcnd", ln, valid) EXCEPT
                           !.jump = IF valid THEN [target |-> d.pos, executed |-> c.v,
                                                   followed |-> a.v]
                                    ELSE @]
    /\ lineNo' = lineNo + 1
    /\ UNCHANGED <<result, subMapping, flagVars, currentPos, curVars, callVars,
                   currentJumpToFile, currentJumpToFunction, dictVars, costVars,
                   buildVars, statusVars, loadVars, fixVars, detectVars, acceptedPos, lastDef>>

\* jump=  (lines 871-884)
JumpLine(ln) ==
    /\ Loading
    /\ Classify(ln).h = "jump"
    /\ LET a == stripUInt64(Classify(ln).rest, TRUE)
           d == parsePosition(a.rest, currentPos, targetPos, hasAddrInfo, hasLineInfo)
           valid == a.ok /\ d.ok
       IN  /\ jumpsExecuted' = a.v
           /\ targetPos' = IF a.ok THEN d.pos ELSE targetPos
           /\ nextLineType' = TypeAfterJumpLine(valid, BoringJump, nextLineType)
           /\ hist' = [Read("jump", ln, valid) EXCEPT
                           !.jump = IF valid THEN [@ EXCEPT !.target = d.pos,
                                                            !.executed = a.v]
                                    ELSE @]
    /\ lineNo' = lineNo + 1
    /\ UNCHANGED <<result, subMapping, flagVars, currentPos, curVars, callVars,
                   currentJumpToFile, currentJumpToFunction, jumpsFollowed,
                   dictVars, costVars, buildVars, statusVars, loadVars, fixVars, detectVars, acceptedPos, lastDef>>

\* --------------------------------------------------------- header lines

\* The names of a view: the text of its tokens other than spaces.
RECURSIVE Names(_)
Names(toks) ==
    IF Len(toks) = 0 THEN << >>
    ELSE IF Head(toks) = SP THEN Names(Tail(toks))
    ELSE <<Head(toks)[1]>> \o Names(Tail(toks))

\* TraceSubMapping of an "events:" line: the schema of the names it lists.
subMappingOf(toks) == [null |-> FALSE, events |-> Names(toks)]

\* events:  (lines 959-964)
EventsLine(ln) ==
    /\ Loading
    /\ Classify(ln).h = "events"
    /\ subMapping' = subMappingOf(Classify(ln).rest)
    /\ lineNo' = lineNo + 1
    /\ hist' = Read("events", ln, FALSE)
    /\ UNCHANGED <<result, nextLineType, posVars, curVars, callVars, jumpVars,
                   dictVars, costVars, buildVars, statusVars, loadVars, fixVars, detectVars, acceptedPos, lastDef>>

\* positions.find(s) >= 0
Finds(toks, s) == \E i \in 1..Len(toks) : toks[i] = Ch(s)

\* positions:  (lines 1003-1009)
PositionsLine(ln) ==
    /\ Loading
    /\ Classify(ln).h = "positions"
    /\ hasLineInfo' = Finds(Classify(ln).rest, "line")
    /\ hasAddrInfo' = Finds(Classify(ln).rest, "instr")
    /\ lineNo' = lineNo + 1
    /\ hist' = Read("positions", ln, FALSE)
    /\ UNCHANGED <<result, subMapping, nextLineType, currentPos, targetPos, curVars, callVars, jumpVars,
                   dictVars, costVars, buildVars, statusVars, loadVars, fixVars, detectVars, acceptedPos, lastDef>>

\* summary:  (lines 1023-1032)
SummaryLine(ln) ==
    /\ Loading
    /\ Classify(ln).h = "summary"
    /\ IF subMapping.null
       THEN /\ result' = "false"
            /\ UNCHANGED totals
       ELSE /\ totals' = CostOf(subMapping, Classify(ln).rest)
            /\ UNCHANGED result
    /\ lineNo' = lineNo + 1
    /\ hist' = [Read("summary", ln, TRUE) EXCEPT !.summary = TRUE]
    /\ UNCHANGED <<subMapping, nextLineType, posVars, curVars, callVars, jumpVars,
                   dictVars, instrCost, lineCost, callCost, partValid,
                   buildVars, statusVars, loadVars, fixVars, detectVars, acceptedPos, lastDef>>

\* ------------------------------------------------------------ cost lines

\* A loader without the schema test before a cost line.
NoEventLineNever(sm) == FALSE

\* if (!subMapping) { ...; return false; }   (lines 1059-1062)
NoEventLine(sm) == sm.null

\* The key of an instruction call / a line call of a call edge.
InstrCall(caller, callee, i) ==
    [caller |-> caller, callee |-> callee, instr |-> i, line |-> NoLine]

LineCall(caller, callee, l) ==
    [caller |-> caller, callee |-> callee, instr |-> NoInstr, line |-> l]

\* addCallCount + addCost on a per-part call projection.
AddCall(m, key, count, c) ==
    IF key \in DOMAIN m
    THEN [m EXCEPT ![key] = [count |-> @.count + count, cost |-> VecAdd(@.cost, c)]]
    ELSE m @@ (key :> [count |-> count, cost |-> c])

\* The pending record type once a cost line has been attributed: the
\* SelfCost branch leaves it, the other two reset it (lines 1157, 1258).
TypeAfterCost(t) == IF t = SelfCost THEN t ELSE SelfCost

\* A jump target cursor that outlives the jump record.
JumpToKept(jf) == jf

\* currentJumpToFunction once a jump has been handled (line 1259).
JumpToAfterJump(jf) == NoFn

\* nextLineType when the instruction lookup fails: "continue" at line 1085
\* leaves the loop body before any branch resets it.
TypeAfterInvalidAddr(t) == t

\* The records constructed when USE_FIXCOST is set: what the loader
\* passes to the constructors of FixCost (lines 1127-1131), FixCallCost
\* (lines 1166-1171) and FixJump (lines 1229-1241).
FixCost(src, pos, partFunction, cost) ==
    [functionSource |-> src, pos |-> pos, partFunction |-> partFunction,
     cost |-> cost]

PartCall(caller, callee) == [caller |-> caller, callee |-> callee]

FixCallCost(src, lineno, addr, partCalling, count, cost) ==
    [functionSource |-> src, line |-> lineno, addr |-> addr,
     partCalling |-> partCalling, count |-> count, cost |-> cost]

FixJump(lineno, addr, partFunction, src, targetLine, targetAddr, targetFunction, targetSource, isCondJump, executed, followed) ==
    [line |-> lineno, addr |-> addr, partFunction |-> partFunction,
     source |-> src, targetLine |-> targetLine, targetAddr |-> targetAddr,
     targetFunction |-> targetFunction, targetSource |-> targetSource,
     isCondJump |-> isCondJump, executed |-> executed, followed |-> followed]

\* currentFunctionSource after lines 1069-1072, for the function fn that
\* ensureFunction left.
FunctionSourceFor(fn) ==
    IF currentFunctionSource.null \/ currentFunctionSource.file # currentFile
    THEN sourceFile(fn, currentFile) ELSE currentFunctionSource

\* The cost line of a build with USE_FIXCOST, once parsePosition accepted
\* it at pos and the schema exists (lines 1065-1072, 1124-1261).
FixCostLine(pos, rest) ==
    LET fn == ensureFunction
        src == FunctionSourceFor(fn)
        cost == CostOf(subMapping, rest)
        jf == IF currentJumpToFunction = NoFn THEN fn ELSE currentJumpToFunction
        targetSource == IF currentJumpToFile # NULL
                        THEN sourceFile(jf, currentJumpToFile) ELSE src
    IN  /\ currentFunction' = fn
        /\ currentFunctionSource' = src
        /\ nextLineType' = TypeAfterCost(nextLineType)
        /\ UNCHANGED <<result, currentInstr, currentLine, instrCost, lineCost,
                       callCost>>
        /\ IF nextLineType = SelfCost
           THEN /\ fixCosts' = Append(fixCosts, FixCost(src, pos, fn, cost))
                /\ UNCHANGED <<fixCallCosts, fixJumps, currentCalledObject,
                               currentCalledFile, currentCallCount,
                               currentJumpToFile, currentJumpToFunction>>
           ELSE IF nextLineType = CallCost
           THEN /\ fixCallCosts' =
                     Append(fixCallCosts,
                            FixCallCost(src,
                                        IF hasLineInfo THEN pos.fromLine ELSE 0,
                                        IF hasAddrInfo THEN pos.fromAddr ELSE 0,
                                        PartCall(fn, currentCalledFunction),
                                        currentCallCount, cost))
                /\ currentCalledFile' = NULL
                /\ currentCalledObject' = NULL
                /\ currentCallCount' = 0
                /\ UNCHANGED <<fixCosts, fixJumps, currentJumpToFile,
                               currentJumpToFunction>>
           ELSE /\ fixJumps' =
                     Append(fixJumps,
                            FixJump(IF hasLineInfo THEN pos.fromLine ELSE 0,
                                    IF hasAddrInfo THEN pos.fromAddr ELSE 0,
                                    fn, src,
                                    IF hasLineInfo THEN targetPos.fromLine ELSE 0,
                                    IF hasAddrInfo THEN targetPos.fromAddr ELSE 0,
                                    jf, targetSource,
                                    nextLineType = CondJump,
                                    jumpsExecuted, jumpsFollowed))
                /\ currentJumpToFunction' = JumpToAfterJump(currentJumpToFunction)
                /\ currentJumpToFile' = NULL
                /\ UNCHANGED <<fixCosts, fixCallCosts, currentCalledObject,
                               currentCalledFile, currentCallCount>>

\* The cost line of a build without USE_FIXCOST (lines 1065, 1074-1105,
\* 1124-1261); found: whether TraceFunction::instr supplies the
\* instruction when the loader looks one up.
PlainCostLine(pos, rest, found) ==
    LET fn == ensureFunction
        lookup == hasAddrInfo /\ (currentInstr.null \/ currentInstr.addr # pos.fromAddr)
        ci == IF lookup THEN instr(fn, pos.fromAddr, found) ELSE currentInstr
        cl == IF hasLineInfo /\ (currentLine.null \/ currentLine.lineno # pos.fromLine)
              THEN line(fn, currentFile, pos.fromLine) ELSE currentLine
        cost == CostOf(subMapping, rest)
    IN  /\ UNCHANGED <<fixVars, currentFunctionSource>>
        /\ IF lookup /\ ci.null
           THEN \* invalid address: continue
                /\ currentFunction' = fn
                /\ currentInstr' = ci
                /\ nextLineType' = TypeAfterInvalidAddr(nextLineType)
                /\ UNCHANGED <<result, currentLine, currentCalledObject,
                               currentCalledFile, currentCallCount,
                               currentJumpToFile, currentJumpToFunction,
                               instrCost, lineCost, callCost>>
           ELSE /\ currentFunction' = fn
                /\ currentInstr' = ci
                /\ currentLine' = IF hasLineInfo THEN cl ELSE currentLine
                /\ nextLineType' = TypeAfterCost(nextLineType)
                /\ UNCHANGED result
                /\ IF nextLineType = SelfCost
                   THEN /\ instrCost' = IF hasAddrInfo THEN AddCost(instrCost, ci, cost)
                                        ELSE instrCost
                        /\ lineCost' = IF hasLineInfo THEN AddCost(lineCost, cl, cost)
                                       ELSE lineCost
                        /\ UNCHANGED <<callCost, currentCalledObject, currentCalledFile,
                                       currentCallCount, currentJumpToFile,
                                       currentJumpToFunction>>
                   ELSE IF nextLineType = CallCost
                   THEN /\ callCost' =
                             LET m1 == IF hasAddrInfo
                                       THEN AddCall(callCost,
                                                    InstrCall(fn, currentCalledFunction, ci),
                                                    currentCallCount, cost)
                                       ELSE callCost
                             IN  IF hasLineInfo
                                 THEN AddCall(m1, LineCall(fn, currentCalledFunction, cl),
                                              currentCallCount, cost)
                                 ELSE m1
                        /\ currentCalledFile' = NULL
                        /\ currentCalledObject' = NULL
                        /\ currentCallCount' = 0
                        /\ UNCHANGED <<instrCost, lineCost, currentJumpToFile,
                                       currentJumpToFunction>>
                   ELSE \* BoringJump or CondJump: nothing is recorded; the
                        \* jump target cursor is cleared
                        /\ currentJumpToFunction' = JumpToAfterJump(currentJumpToFunction)
                        /\ currentJumpToFile' = NULL
                        /\ UNCHANGED <<instrCost, lineCost, callCost,
                                       currentCalledObject, currentCalledFile,
                                       currentCallCount>>

\* A cost has been attributed by a line read while not both position
\* columns were present.
Mixed(ok, found) ==
    /\ ok /\ ~NoEventLine(subMapping)
    /\ ~(hasAddrInfo /\ hasLineInfo)
    /\ USE_FIXCOST \/ found \/ ~hasAddrInfo
          \/ ~(currentInstr.null \/ currentInstr.addr # currentPos'.fromAddr)

\* A line whose first character is <= '9' (lines 752-758, 1059-1261).
PositionLine(ln, found) ==
    /\ Loading
    /\ Classify(ln).h = "position"
    /\ lineNo' = lineNo + 1
    /\ LET r == parsePosition(ln, currentPos, currentPos, hasAddrInfo, hasLineInfo)
       IN
       /\ currentPos' = r.pos
       /\ hist' = [Read("position", ln, r.ok) EXCEPT !.mixed = @ \/ Mixed(r.ok, found)]
       /\ acceptedPos' = IF r.ok THEN r.pos ELSE acceptedPos
       /\ UNCHANGED <<subMapping, flagVars, targetPos, currentObject, currentFile,
                      dictVars, totals, partValid, buildVars, statusVars, loadVars, detectVars, lastDef,
                      currentCalledFunction, jumpsFollowed, jumpsExecuted>>
       /\ IF ~r.ok \/ NoEventLine(subMapping)
          THEN \* if (!parsePosition(line, currentPos)) continue;
               \* if (!subMapping) return false;
               /\ result' = IF r.ok THEN "false" ELSE result
               /\ UNCHANGED <<nextLineType, currentFunction, currentFunctionSource,
                              currentInstr, currentLine, currentCalledObject,
                              currentCalledFile, currentCallCount,
                              currentJumpToFile, currentJumpToFunction,
                              instrCost, lineCost, callCost, fixVars>>
          ELSE IF USE_FIXCOST THEN FixCostLine(r.pos, r.rest)
          ELSE PlainCostLine(r.pos, r.rest, found)

\* ---------------------------------------------------------- end of input

\* bool totalsSet = false;  (line 732) and never assigned again.
totalsSet == FALSE

\* The functions that own a projection.
CostFunctions == {k.fn : k \in DOMAIN lineCost} \cup {k.fn : k \in DOMAIN instrCost}

\* The per-part cost of a function: the sum of its line projections, or of
\* its instruction projections when it has no line.
FunctionCost(fn) ==
    LET ls == {k \in DOMAIN lineCost : k.fn = fn}
        is == {k \in DOMAIN instrCost : k.fn = fn}
    IN  IF ls # {} THEN SumOver(lineCost, ls) ELSE SumOver(instrCost, is)

RECURSIVE SumFunctions(_)
SumFunctions(fns) ==
    IF fns = {} THEN << >>
    ELSE LET f == CHOOSE x \in fns : TRUE
         IN  VecAdd(FunctionCost(f), SumFunctions(fns \ {f}))

\* The sum of the costs of the FixCost records.
RECURSIVE FixSum(_)
FixSum(recs) ==
    IF Len(recs) = 0 THEN << >> ELSE VecAdd(Head(recs).cost, FixSum(Tail(recs)))

\* The cost of the part: the sum over its per-function projections, which
\* a build with USE_FIXCOST derives from the FixCost records.
PartCost == IF USE_FIXCOST THEN FixSum(fixCosts) ELSE SumFunctions(CostFunctions)

\* A load that ends without recomputing the totals.
TotalsKept == totals

\* The totals vector when the load ends (lines 1268-1271).
TotalsAtEnd == IF ~totalsSet THEN PartCost ELSE totals

\* nextLine fails: lines 1266-1275.
EndOfLoad ==
    /\ Loading
    /\ result' = "true"
    /\ partValid' = FALSE
    /\ totals' = TotalsAtEnd
    /\ hist' = Read("eof", << >>, FALSE)
    /\ UNCHANGED <<lineNo, subMapping, nextLineType, posVars, curVars, callVars,
                   jumpVars, dictVars, instrCost, lineCost, callCost, buildVars, loadVars, fixVars, detectVars,
                   acceptedPos, lastDef>>

\* The end of the input where the progress signal is not followed.
EndOfInput == EndOfLoad /\ UNCHANGED statusVars

\* ------------------------------------------------------------ detection

\* readBlock(buf, 2047)  (line 169)
ReadLimit == 2047

EventsKey == <<"e", "v", "e", "n", "t", "s", ":">>

\* The pieces a file is put together from: the literal, a newline, another
\* byte, and a run of other bytes that ends 8 bytes before the read limit.
Chunk(c) ==
    CASE c = "events:" -> EventsKey
      [] c = "nl" -> <<"\n">>
      [] c = "x" -> <<"x">>
      [] c = "pad" -> [i \in 1..(ReadLimit - 8) |-> "x"]

ChunkNames == {"events:", "nl", "x", "pad"}

RECURSIVE Bytes(_)
Bytes(chunks) ==
    IF Len(chunks) = 0 THEN << >> ELSE Chunk(Head(chunks)) \o Bytes(Tail(chunks))

\* Q3CString::find(pat): the offset of the first occurrence, -1 for none.
Find(buf, pat) ==
    LET hits == {i \in 0..(Len(buf) - Len(pat)) : SubSeq(buf, i + 1, i + Len(pat)) = pat}
    IN  IF hits = {} THEN -1 ELSE CHOOSE i \in hits : \A j \in hits : i <= j

\* if (pos>0 && buf[pos-1] != '\n') pos = -1;   (line 175)
LineStart(buf, pos) == IF pos > 0 /\ buf[pos] # "\n" THEN -1 ELSE pos

\* canLoadTrace (lines 152-178) on an open file with these bytes.
canLoadTrace(bytes) ==
    LET read == IF Len(bytes) < ReadLimit THEN Len(bytes) ELSE ReadLimit
        buf == SubSeq(bytes, 1, read)
    IN  LineStart(buf, Find(buf, EventsKey)) >= 0

\* The file grows by one piece (the environment writes the file).
AppendChunk(c) ==
    /\ canLoad = "unasked"
    /\ Len(fileChunks) < MaxChunks
    /\ fileChunks' = Append(fileChunks, c)
    /\ UNCHANGED <<canLoad, buildVars, statusVars, loadVars, fixVars, ctlVars, posVars, curVars, callVars, jumpVars,
                   dictVars, costVars, histVars>>

\* canLoadTrace is asked about the file.
CanLoadTrace ==
    /\ canLoad = "unasked"
    /\ canLoad' = IF canLoadTrace(Bytes(fileChunks)) THEN "yes" ELSE "no"
    /\ UNCHANGED <<fileChunks, buildVars, statusVars, loadVars, fixVars, ctlVars, posVars, curVars, callVars, jumpVars,
                   dictVars, costVars, histVars>>

NextDetect ==
    \/ \E c \in ChunkNames : AppendChunk(c)
    \/ CanLoadTrace

SpecDetect == Init /\ [][NextDetect]_vars

\* ---------------------------------------------------------------- inputs

Key(c, k, val) == <<Ch(c), Ch(k)>> \o val
Def(n, nm) == <<Ch("("), Num(n), Ch(")"), SP, Ch(nm)>>
Ref(n) == <<Ch("("), Num(n), Ch(")")>>
Bare(nm) == <<Ch(nm)>>

\* A position column: head is "*", "+k", "-k" or a literal k; the range
\* suffix is none, "+d", "-d" or ":d".
Col(head, k, range, d) == [head |-> head, k |-> k, range |-> range, d |-> d]

ColTokens(c) ==
    (CASE c.head = "*" -> <<Ch("*")>>
       [] c.head = "+" -> <<Ch("+"), Num(c.k)>>
       [] c.head = "-" -> <<Ch("-"), Num(c.k)>>
       [] c.head = "lit" -> <<Num(c.k)>>)
    \o (CASE c.range = "none" -> << >>
          [] c.range = "+" -> <<Ch("+"), Num(c.d)>>
          [] c.range = "-" -> <<Ch("-"), Num(c.d)>>
          [] c.range = ":" -> <<Ch(":"), Num(c.d)>>)

\* A position line of one or two columns, with or without a cost of 1.
Pos1(c, withCost) == ColTokens(c) \o (IF withCost THEN <<SP, Num(1)>> ELSE << >>)

Pos2(c1, c2, withCost) ==
    ColTokens(c1) \o <<SP>> \o ColTokens(c2)
        \o (IF withCost THEN <<SP, Num(1)>> ELSE << >>)

\* The lines of the loader specification Spec.
HeaderLines ==
    { Key("e", "vents:", <<SP, Ch("Ir")>>),
      Key("p", "ositions:", <<SP, Ch("instr"), SP, Ch("line")>>),
      Key("s", "ummary:", <<SP, Num(9)>>),
      Key("v", "ersion:", <<SP, Num(1)>>),
      <<Ch("x"), Ch("yz")>>,
      <<Ch("#"), Ch("text")>>,
      << >> }

BindingLines ==
    { Key("o", "b=", Bare("A")),
      Key("f", "l=", Bare("a.c")),
      Key("f", "n=", Bare("f")),
      Key("f", "n=", Bare("g")),
      Key("c", "ob=", Bare("A")),
      Key("c", "fi=", Bare("a.c")),
      Key("c", "fn=", Bare("g")),
      Key("j", "fi=", Bare("a.c")),
      Key("j", "fn=", Bare("g")) }

ArmingLines ==
    { Key("c", "alls=", <<Num(3), SP, Num(20)>>),
      Key("r", "calls=", <<Num(2), SP, Num(20)>>),
      Key("j", "ump=", <<Num(4), SP, Num(10)>>),
      Key("j", "ump=", <<Num(9)>>),
      Key("j", "cnd=", <<Num(7), Ch("/"), Num(10), SP, Num(20)>>),
      Key("j", "cnd=", <<Num(7), SP, Num(20)>>) }

CostLines ==
    { <<Num(16), SP, Num(10), SP, Num(5)>>,
      <<Num(16), SP, Num(11), SP, Num(5)>> }

MainLines == HeaderLines \cup BindingLines \cup ArmingLines \cup CostLines

\* The lines the file may continue with: none once MaxLines were read.
MainInput == IF lineNo < MaxLines THEN MainLines ELSE {}

Next ==
    \/ \E ln \in MainInput : EmptyLine(ln)
    \/ \E ln \in MainInput : MetaLine(ln)
    \/ \E ln \in MainInput : InvalidLine(ln)
    \/ \E ln \in MainInput : ObjectLine(ln)
    \/ \E ln \in MainInput : FileLine(ln)
    \/ \E ln \in MainInput : FunctionLine(ln)
    \/ \E ln \in MainInput : CalledObjectLine(ln)
    \/ \E ln \in MainInput : CalledFileLine(ln)
    \/ \E ln \in MainInput : CalledFunctionLine(ln)
    \/ \E ln \in MainInput : JumpFileLine(ln)
    \/ \E ln \in MainInput : JumpFunctionLine(ln)
    \/ \E ln \in MainInput : CallsLine(ln)
    \/ \E ln \in MainInput : RcallsLine(ln)
    \/ \E ln \in MainInput : JcndLine(ln)
    \/ \E ln \in MainInput : JumpLine(ln)
    \/ \E ln \in MainInput : EventsLine(ln)
    \/ \E ln \in MainInput : PositionsLine(ln)
    \/ \E ln \in MainInput : SummaryLine(ln)
    \/ \E ln \in MainInput, found \in BOOLEAN : PositionLine(ln, found)
    \/ EndOfInput

Spec == Init /\ [][Next]_vars

\* ------------------------------------- the position-parser specification

PosHeaders ==
    { Key("e", "vents:", <<SP, Ch("Ir")>>),
      Key("p", "ositions:", <<SP, Ch("instr"), SP, Ch("line")>>),
      Key("p", "ositions:", <<SP, Ch("instr")>>) }

\* Every head without a range, and every range after some head.
PlainCols ==
    { Col("*", 0, "none", 0), Col("+", 2, "none", 0), Col("-", 1, "none", 0),
      Col("-", 5, "none", 0), Col("lit", 3, "none", 0) }

RangeCols ==
    { Col("lit", 3, "+", 2), Col("lit", 3, "-", 7), Col("lit", 3, ":", 7),
      Col("+", 2, "+", 2), Col("*", 0, ":", 7) }

Cols == PlainCols \cup RangeCols

Lit3 == Col("lit", 3, "none", 0)

PosLines ==
    { Pos1(c, TRUE) : c \in Cols }
        \cup { Pos1(c, FALSE) : c \in PlainCols }
        \cup { Pos2(c, Lit3, TRUE) : c \in Cols }
        \cup { Pos2(Lit3, c, TRUE) : c \in Cols }

\* Header lines come first; MaxPosLines position lines may follow them.
PosHeaderInput == IF lineNo < 2 THEN PosHeaders ELSE {}
PosInput == IF lineNo < 2 + MaxPosLines THEN PosLines ELSE {}

NextPos ==
    \/ \E ln \in PosHeaderInput : EventsLine(ln)
    \/ \E ln \in PosHeaderInput : PositionsLine(ln)
    \/ \E ln \in PosInput : PositionLine(ln, TRUE)
    \/ EndOfInput

SpecPos == Init /\ [][NextPos]_vars

\* -------------------------------------- the cost-attribution specification

CostSpecLines ==
    { Key("e", "vents:", <<SP, Ch("Ir")>>),
      Key("p", "ositions:", <<SP, Ch("instr"), SP, Ch("line")>>),
      Key("f", "n=", Bare("f")),
      Key("f", "n=", Bare("g")),
      Key("f", "l=", Bare("b.c")),
      Key("c", "alls=", <<Num(3), SP, Num(20)>>),
      <<Num(16), SP, Num(10), SP, Num(5)>>,
      <<Num(17), SP, Num(10), SP, Num(2)>> }

CostInput == IF lineNo < MaxCostLines THEN CostSpecLines ELSE {}

NextCost ==
    \/ \E ln \in CostInput : EventsLine(ln)
    \/ \E ln \in CostInput : PositionsLine(ln)
    \/ \E ln \in CostInput : FunctionLine(ln)
    \/ \E ln \in CostInput : FileLine(ln)
    \/ \E ln \in CostInput : CallsLine(ln)
    \/ \E ln \in CostInput, found \in BOOLEAN : PositionLine(ln, found)
    \/ EndOfInput

SpecCost == Init /\ [][NextCost]_vars

\* ------------------------------------------- the dictionary specification

\* The values of an entity-binding line in a namespace whose vector starts
\* with size slots: definitions and references of a small id and of the
\* first id beyond the initial size, a plain name and a "(N" without its
\* closing parenthesis.
Values(size) ==
    { Def(1, "A"), Def(1, "B"), Ref(1), Ref(2), Def(size, "A"), Ref(size),
      Bare("A"), <<Ch("("), Num(1)>> }

\* The values of the call and jump target lines.
FewValues == { Def(1, "B"), Ref(1), Ref(2) }

DictLines ==
    { Key("o", "b=", v) : v \in Values(ObjVecSize) }
        \cup { Key("f", "l=", v) : v \in Values(FileVecSize) }
        \cup { Key("f", "n=", v) : v \in Values(FnVecSize) }
        \cup { Key("c", k, v) : k \in {"ob=", "fi=", "fn="}, v \in FewValues }
        \cup { Key("j", k, v) : k \in {"fi=", "fn="}, v \in FewValues }

DictInput == IF lineNo < MaxDictLines THEN DictLines ELSE {}

NextDict ==
    \/ \E ln \in DictInput : ObjectLine(ln)
    \/ \E ln \in DictInput : FileLine(ln)
    \/ \E ln \in DictInput : FunctionLine(ln)
    \/ \E ln \in DictInput : CalledObjectLine(ln)
    \/ \E ln \in DictInput : CalledFileLine(ln)
    \/ \E ln \in DictInput : CalledFunctionLine(ln)
    \/ \E ln \in DictInput : JumpFileLine(ln)
    \/ \E ln \in DictInput : JumpFunctionLine(ln)
    \/ EndOfInput

SpecDict == Init /\ [][NextDict]_vars

\* ------------------------------------------------- several schemas

SchemaLines ==
    { Key("e", "vents:", <<SP, Ch("Ir")>>),
      Key("e", "vents:", <<SP, Ch("Ir"), SP, Ch("Dr")>>),
      Key("f", "n=", Bare("f")),
      <<Num(16), SP, Num(10), SP, Num(5)>> }

SchemaInput == IF lineNo < MaxLines THEN SchemaLines ELSE {}

NextSchema ==
    \/ \E ln \in SchemaInput : EventsLine(ln)
    \/ \E ln \in SchemaInput : FunctionLine(ln)
    \/ \E ln \in SchemaInput : \E found \in BOOLEAN : PositionLine(ln, found)
    \/ EndOfInput

SpecSchema == Init /\ [][NextSchema]_vars

\* ------------------------------------------- comments and empty lines

CommentLines ==
    { Key("e", "vents:", <<SP, Ch("Ir")>>),
      Key("p", "ositions:", <<SP, Ch("instr"), SP, Ch("line")>>),
      Key("p", "ositions:", <<SP, Ch("instr")>>),
      Key("p", "ositions:", <<SP>>),
      Key("f", "n=", Bare("f")),
      Key("c", "alls=", <<Num(3), SP, Num(20)>>),
      <<Ch("#"), Ch("text")>>,
      << >> }

CommentInput == IF lineNo < MaxLines THEN CommentLines ELSE {}

NextComment ==
    \/ \E ln \in CommentInput : EmptyLine(ln)
    \/ \E ln \in CommentInput : EventsLine(ln)
    \/ \E ln \in CommentInput : PositionsLine(ln)
    \/ \E ln \in CommentInput : FunctionLine(ln)
    \/ \E ln \in CommentInput : CallsLine(ln)
    \/ \E ln \in CommentInput : \E found \in BOOLEAN : PositionLine(ln, found)
    \/ EndOfInput

SpecComment == Init /\ [][NextComment]_vars

\* ------------------------------------------- object lines among costs

ObjectCostLines ==
    { Key("e", "vents:", <<SP, Ch("Ir")>>),
      Key("o", "b=", Bare("A")),
      Key("f", "l=", Bare("a.c")),
      Key("f", "n=", Bare("f")),
      <<Num(16), SP, Num(10), SP, Num(5)>> }

ObjectCostInput == IF lineNo < MaxCostLines THEN ObjectCostLines ELSE {}

NextObject ==
    \/ \E ln \in ObjectCostInput : EventsLine(ln)
    \/ \E ln \in ObjectCostInput : ObjectLine(ln)
    \/ \E ln \in ObjectCostInput : FileLine(ln)
    \/ \E ln \in ObjectCostInput : FunctionLine(ln)
    \/ \E ln \in ObjectCostInput : \E found \in BOOLEAN : PositionLine(ln, found)
    \/ EndOfInput

SpecObject == Init /\ [][NextObject]_vars

\* ------------------------------------------------------ arming lines

ArmingSpecLines ==
    { Key("e", "vents:", <<SP, Ch("Ir")>>),
      Key("c", "alls=", <<Num(3), SP, Num(20)>>),
      Key("r", "calls=", <<Num(2), SP, Num(20)>>),
      Key("s", "calls=", <<Num(5), SP, Num(20)>>),
      Key("s", "xyz", << >>),
      Key("j", "ump=", <<Num(4), SP, Num(10)>>),
      Key("j", "cnd=", <<Num(7), Ch("/"), Num(10), SP, Num(20)>>),
      Key("j", "cnd=", <<Num(7), SP, Num(20)>>),
      Key("j", "ump=", <<SP, Num(10)>>),
      Key("j", "ump=", <<Num(9)>>),
      <<Num(16), SP, Num(10), SP, Num(5)>> }

ArmingInput == IF lineNo < MaxLines THEN ArmingSpecLines ELSE {}

NextArming ==
    \/ \E ln \in ArmingInput : EventsLine(ln)
    \/ \E ln \in ArmingInput : CallsLine(ln)
    \/ \E ln \in ArmingInput : RcallsLine(ln)
    \/ \E ln \in ArmingInput : InvalidLine(ln)
    \/ \E ln \in ArmingInput : JumpLine(ln)
    \/ \E ln \in ArmingInput : JcndLine(ln)
    \/ \E ln \in ArmingInput : \E found \in BOOLEAN : PositionLine(ln, found)
    \/ EndOfInput

SpecArming == Init /\ [][NextArming]_vars

\* ---------------------------------------------------- jump targets

\* Cost lines that move the cursor, and jump=/jcnd= lines with an absolute,
\* a "*", a "+N" and a "-N" target; after "positions: instr" the one column
\* is an address, and after "positions: instr line" a target of one column
\* is rejected.
JumpSpecLines ==
    { Key("e", "vents:", <<SP, Ch("Ir")>>),
      Key("p", "ositions:", <<SP, Ch("instr")>>),
      Key("p", "ositions:", <<SP, Ch("instr"), SP, Ch("line")>>),
      <<Num(10), SP, Num(1)>>,
      <<Ch("+"), Num(2), SP, Num(1)>>,
      Key("j", "ump=", <<Num(4), SP, Num(20)>>),
      Key("j", "ump=", <<Num(4), SP, Ch("*")>>),
      Key("j", "ump=", <<Num(4), SP, Ch("+"), Num(3)>>),
      Key("j", "ump=", <<Num(4), SP, Ch("-"), Num(1)>>),
      Key("j", "cnd=", <<Num(1), Ch("/"), Num(4), SP, Ch("*")>>),
      Key("j", "cnd=", <<Num(1), Ch("/"), Num(4), SP, Ch("+"), Num(3)>>) }

JumpSpecInput == IF lineNo < MaxLines THEN JumpSpecLines ELSE {}

NextJump ==
    \/ \E ln \in JumpSpecInput : EventsLine(ln)
    \/ \E ln \in JumpSpecInput : PositionsLine(ln)
    \/ \E ln \in JumpSpecInput : JumpLine(ln)
    \/ \E ln \in JumpSpecInput : JcndLine(ln)
    \/ \E ln \in JumpSpecInput : \E found \in BOOLEAN : PositionLine(ln, found)
    \/ EndOfInput

SpecJump == Init /\ [][NextJump]_vars

\* ---------------------------------------------------- progress signal

\* (int)(100.0 * file.current() / file.len() +.5)  (line 783)
progressOf(current, len) == (200 * current + len) \div (2 * len)

\* if (progress != statusProgress)  (line 784)
changed(progress, last) == progress # last

\* The bytes file.current() advances by for a line: an empty line is its
\* newline, "fn=f" and "fn=g" are four bytes and the newline.
bytesOf(ln) == IF Len(ln) = 0 THEN 1 ELSE 5

StatusStarted == emitted # << >>

\* The start of loadTraceInternal (lines 713-721): the file is opened, it
\* has n bytes, and the first signal is emitted.
LoadStarts(n) ==
    /\ Loading
    /\ lineNo = 0
    /\ ~StatusStarted
    /\ fileLen' = n
    /\ fileCurrent' = 0
    /\ statusProgress' = 0
    /\ emitted' = <<0>>
    /\ UNCHANGED <<ctlVars, posVars, curVars, callVars, jumpVars, dictVars,
                   costVars, buildVars, fixVars, detectVars, loadVars, histVars>>

\* file.nextLine(line) yields a line and file.current() is behind it.
NextLineRead(ln) ==
    /\ StatusStarted
    /\ fileCurrent + bytesOf(ln) <= fileLen
    /\ fileCurrent' = fileCurrent + bytesOf(ln)
    /\ fileLen' = fileLen

\* An empty line (line 750): no signal.
StatusEmptyLine(ln) ==
    /\ NextLineRead(ln)
    /\ Loading
    /\ Classify(ln).h = "empty"
    /\ SkipLine("empty", ln)
    /\ UNCHANGED <<statusProgress, emitted>>

\* fn= (lines 777-796): setFunction, then the signal when the progress
\* differs from the one last emitted.
StatusFunctionLine(ln) ==
    /\ NextLineRead(ln)
    /\ setFunctionLine(ln)
    /\ LET progress == progressOf(fileCurrent', fileLen)
       IN  IF changed(progress, statusProgress)
           THEN /\ statusProgress' = progress
                /\ emitted' = Append(emitted, progress)
           ELSE UNCHANGED <<statusProgress, emitted>>

\* nextLine fails at the end of the file: the last signal (line 1265) and
\* lines 1266-1275.
StatusEndOfInput ==
    /\ StatusStarted
    /\ fileCurrent = fileLen
    /\ EndOfLoad
    /\ emitted' = Append(emitted, 100)
    /\ UNCHANGED <<fileLen, fileCurrent, statusProgress>>

StatusLines == { << >>, Key("f", "n=", Bare("f")), Key("f", "n=", Bare("g")) }

FileLens == 0..MaxFileLen

NextStatus ==
    \/ \E n \in FileLens : LoadStarts(n)
    \/ \E ln \in StatusLines : StatusEmptyLine(ln)
    \/ \E ln \in StatusLines : StatusFunctionLine(ln)
    \/ StatusEndOfInput

SpecStatus == Init /\ [][NextStatus]_vars

\* --------------------------------------------------------- cancelling

\* The caller asks for the load to be cancelled while it is running.  The
\* main loop (lines 740-1262) tests file.nextLine(line) only and the
\* loader has no member for such a request: nothing of it changes.
RequestCancel ==
    /\ Loading
    /\ ~hist.cancel
    /\ hist' = [hist EXCEPT !.cancel = TRUE]
    /\ UNCHANGED <<ctlVars, posVars, curVars, callVars, jumpVars, dictVars,
                   costVars, buildVars, statusVars, loadVars, fixVars, detectVars, acceptedPos, lastDef>>

CancelLines ==
    { <<Ch("e"), Ch("vents:"), SP, Ch("Ir")>>,
      Key("f", "n=", Bare("f")),
      <<Num(16), SP, Num(10), SP, Num(5)>> }

CancelInput == IF lineNo < MaxLines THEN CancelLines ELSE {}

NextCancel ==
    \/ RequestCancel
    \/ \E ln \in CancelInput : EventsLine(ln)
    \/ \E ln \in CancelInput : FunctionLine(ln)
    \/ \E ln \in CancelInput : \E found \in BOOLEAN : PositionLine(ln, found)
    \/ EndOfInput

SpecCancel == Init /\ [][NextCancel]_vars

\* ------------------------------------------------- interleaved loads

\* The number of lines each of the interleaved loads reads.
MaxLoadLines == 2

\* One loader object for all calls: loadTraceInternal run on the
\* registered loader itself.
singletonLoader(c) == 1

\* loadTrace (lines 185, 191): every call runs on a loader object of its
\* own.
loaderOf(c) == c

\* The members after clearCompression (line 702), clearPosition (line 703)
\* and lines 729-738.
clearedLoader ==
    [lineNo |-> 0, nextLineType |-> SelfCost,
     currentObject |-> NULL, currentFile |-> NULL, currentFunction |-> NoFn,
     objectVector |-> EmptyVec(ObjVecSize), fileVector |-> EmptyVec(FileVecSize),
     functionVector |-> EmptyVec(FnVecSize)]

\* A step of call c on its loader object; the single load of the other
\* specifications is not running.
LoadStep(c, l) ==
    /\ loaders' = [loaders EXCEPT ![loaderOf(c)] = l]
    /\ lastCall' = c
    /\ UNCHANGED <<ctlVars, posVars, curVars, callVars, jumpVars, objectVector,
                   fileVector, functionVector, costVars, buildVars, statusVars, fixVars,
                   detectVars, histVars>>

\* A line is read by call c (lines 740-742).
LoadReads(c, ln, kind) ==
    /\ callState[c] = "loading"
    /\ loaders[loaderOf(c)].lineNo < MaxLoadLines
    /\ Classify(ln).h = kind

\* loadTrace(p): a loader object is constructed and loadTraceInternal
\* starts on it.
LoadTrace(c) ==
    /\ callState[c] = "idle"
    /\ callState' = [callState EXCEPT ![c] = "loading"]
    /\ LoadStep(c, clearedLoader)
    /\ UNCHANGED functionObject

\* ob= read by call c
LoadObjectLine(c, ln) ==
    /\ LoadReads(c, ln, "object")
    /\ LET l == loaders[loaderOf(c)]
           r == compressedObject(Classify(ln).rest, l.objectVector)
       IN  LoadStep(c, [l EXCEPT !.lineNo = @ + 1,
                                 !.objectVector = r.vec,
                                 !.currentObject = ObjectOrDummy(r.e),
                                 !.currentFunction = NoFn])
    /\ UNCHANGED <<callState, functionObject>>

\* fl= read by call c
LoadFileLine(c, ln) ==
    /\ LoadReads(c, ln, "file")
    /\ LET l == loaders[loaderOf(c)]
           r == compressedFile(Classify(ln).rest, l.fileVector)
       IN  LoadStep(c, [l EXCEPT !.lineNo = @ + 1,
                                 !.fileVector = r.vec,
                                 !.currentFile = FileOrDummy(r.e)])
    /\ UNCHANGED <<callState, functionObject>>

\* fn= read by call c; the progress signal of lines 783-793 is where
\* another call can run before this one goes on.
LoadFunctionLine(c, ln) ==
    /\ LoadReads(c, ln, "function")
    /\ LET l == loaders[loaderOf(c)]
           f == FileOrDummy(l.currentFile)
           o == ObjectOrDummy(l.currentObject)
           r == compressedFunction(Classify(ln).rest, f, o, l.functionVector,
                                   functionObject)
       IN  /\ LoadStep(c, [l EXCEPT !.lineNo = @ + 1,
                                    !.functionVector = r.vec,
                                    !.currentFile = f,
                                    !.currentObject = o,
                                    !.currentFunction = FunctionOrDummy(r.e)])
           /\ functionObject' = r.fo
    /\ UNCHANGED callState

\* calls= read by call c
LoadCallsLine(c, ln) ==
    /\ LoadReads(c, ln, "calls")
    /\ LoadStep(c, [loaders[loaderOf(c)] EXCEPT !.lineNo = @ + 1,
                                                !.nextLineType = CallCost])
    /\ UNCHANGED <<callState, functionObject>>

\* Call c reaches the end of its input and returns.
LoadReturns(c) ==
    /\ callState[c] = "loading"
    /\ callState' = [callState EXCEPT ![c] = "done"]
    /\ LoadStep(c, loaders[loaderOf(c)])
    /\ UNCHANGED functionObject

LoadLines ==
    { Key("o", "b=", Def(1, "A")),
      Key("o", "b=", Ref(1)),
      Key("f", "l=", Def(1, "a.c")),
      Key("f", "l=", Ref(1)),
      Key("f", "n=", Def(1, "f")),
      Key("f", "n=", Ref(1)),
      Key("c", "alls=", <<Num(3), SP, Num(20)>>) }

NextLoads ==
    \/ \E c \in Calls : LoadTrace(c)
    \/ \E c \in Calls : \E ln \in LoadLines : LoadObjectLine(c, ln)
    \/ \E c \in Calls : \E ln \in LoadLines : LoadFileLine(c, ln)
    \/ \E c \in Calls : \E ln \in LoadLines : LoadFunctionLine(c, ln)
    \/ \E c \in Calls : \E ln \in LoadLines : LoadCallsLine(c, ln)
    \/ \E c \in Calls : LoadReturns(c)

SpecLoads == Init /\ [][NextLoads]_vars

\* ================================================================ claims

\* The literal "events:" lies within the first ReadLimit bytes at offset 0
\* or right after a newline.
EventsAtLineStart(bytes) ==
    LET read == IF Len(bytes) < ReadLimit THEN Len(bytes) ELSE ReadLimit
    IN  \E i \in 0..(read - Len(EventsKey)) :
            /\ SubSeq(bytes, i + 1, i + Len(EventsKey)) = EventsKey
            /\ (i = 0 \/ bytes[i] = "\n")

\* C2: canLoadTrace answers true if and only if "events:" occurs at the
\* start of a line within the first 2047 bytes, whatever precedes that
\* occurrence (an earlier "events:" in the middle of a line included).
C2_RecognisedIffEventsAtLineStart ==
    canLoad # "unasked" =>
        (canLoad = "yes" <=> EventsAtLineStart(Bytes(fileChunks)))

\* ------------------------------------------------------------------ C1

NoCost ==
    /\ DOMAIN instrCost = {} /\ DOMAIN lineCost = {} /\ DOMAIN callCost = {}
    /\ fixCosts = << >> /\ fixCallCosts = << >> /\ fixJumps = << >>

\* C1: when no "events:" line has been read, an accepted cost line and a
\* "summary:" line both end the load with false, and a load that has ended
\* with false has accumulated no cost in any projection.
C1_NoEventsAborts ==
    /\ (hist.kind \in {"position", "summary"} /\ hist.accepted /\ hist.preNull)
           => result = "false"
    /\ result = "false" => NoCost /\ totals = << >>

\* An accepted cost line has been read with no schema and the load ended.
C1_Witness ==
    /\ hist.kind = "position" /\ hist.accepted /\ hist.preNull
    /\ Len(hist.ln) >= 3
    /\ result = "false"

\* ------------------------------------------------------------------ C3

\* The namespace of the dictionary an entity-binding line uses.
Namespace(kind) ==
    CASE kind \in {"object", "calledObject"} -> "objects"
      [] kind \in {"file", "calledFile", "jumpFile"} -> "files"
      [] kind \in {"function", "calledFunction", "jumpFunction"} -> "functions"
      [] OTHER -> "none"

\* What compressedX returned for the last line.
Resolved == IF Namespace(hist.kind) = "functions" THEN hist.resFn ELSE hist.resName

\* The last line is an entity-binding line whose value is the reference (N).
LastIsReference ==
    /\ Namespace(hist.kind) # "none"
    /\ IsRef(Classify(hist.ln).rest)

LastId == Classify(hist.ln).rest[2][2]

\* C3: a reference (N) resolves to the entity that the most recent
\* definition "(N) name" of its namespace bound to N, whatever definitions
\* of the same or other ids came before it.
C3_ReferenceResolvesLastDefinition ==
    (LastIsReference /\ LastId \in DOMAIN lastDef[Namespace(hist.kind)])
        => Resolved = lastDef[Namespace(hist.kind)][LastId]

\* A reference to id 1 resolved to the object "B", and the id beyond the
\* initial size of the file vector is bound as well.
C3_Witness ==
    /\ hist.kind = "object" /\ LastIsReference /\ LastId = 1
    /\ 1 \in DOMAIN lastDef.objects
    /\ Resolved = object("B")
    /\ FileVecSize \in DOMAIN lastDef.files

\* ------------------------------------------------------------------ C4

\* The cursor field an entity-setting line binds.
CursorOf(kind) ==
    CASE kind = "object" -> currentObject
      [] kind = "file" -> currentFile
      [] kind = "function" -> currentFunction
      [] kind = "calledObject" -> currentCalledObject
      [] kind = "calledFile" -> currentCalledFile
      [] kind = "calledFunction" -> currentCalledFunction

SettingKinds ==
    {"object", "file", "function", "calledObject", "calledFile", "calledFunction"}

NullOf(kind) == IF Namespace(kind) = "functions" THEN NoFn ELSE NULL

DummyOf(kind) ==
    CASE Namespace(kind) = "objects" -> object(Dummy)
      [] Namespace(kind) = "files" -> file(Dummy)
      [] Namespace(kind) = "functions" -> function(Dummy, NULL, NULL)

LastIsSetting == hist.kind \in SettingKinds

LastNamespace == Namespace(hist.kind)

LastCursor == CursorOf(hist.kind)

\* C4: a reference (N) to an id that was never defined resolves to null,
\* leaves the three tables as they were and does not end the load; on an
\* ob=, fl=/fi=/fe=, fn=, cob=, cfi= or cfn= line the cursor field is then
\* bound to the '???' entity, and after any of these lines that field is
\* not null.
C4_UndefinedReference ==
    [][ LastIsSetting' =>
          /\ LastCursor' # NullOf(hist.kind)'
          /\ (LastIsReference' /\ LastId' \notin DOMAIN lastDef[LastNamespace'])
                 => /\ Resolved' = NullOf(hist.kind)'
                    /\ dictVars' = dictVars
                    /\ result' = "loading"
                    /\ LastCursor' = DummyOf(hist.kind)' ]_vars

\* An fn= line referred to an id no line had defined, in a vector that
\* holds another id, and the function cursor is the '???' function.
C4_Witness ==
    /\ hist.kind = "function" /\ LastIsReference
    /\ LastId \notin DOMAIN lastDef.functions
    /\ DOMAIN lastDef.functions # {}
    /\ currentFunction = function(Dummy, NULL, NULL)

\* ------------------------------------------------------------------ C5

\* C5: when parsePosition returns false the cursor currentPos is what it
\* was before the line, also when the address column was parsed and the
\* line column is missing or invalid.
C5_RejectedLineLeavesCursor ==
    (hist.kind = "position" /\ ~hist.accepted) => currentPos = hist.prePos

\* -------------------------------------------------------------- C6, C7

\* The space-separated fields of a line.
RECURSIVE Fields(_)
Fields(toks) ==
    IF Len(toks) = 0 THEN << << >> >>
    ELSE LET r == Fields(Tail(toks))
         IN  IF Head(toks) = SP THEN << << >> >> \o r
             ELSE << <<Head(toks)>> \o r[1] >> \o Tail(r)

\* The number of tokens of the head of a column: "*", "+k", "-k" or k.
HeadLen(fld) == IF Len(fld) >= 1 /\ fld[1] \in {Ch("+"), Ch("-")} THEN 2 ELSE 1

\* A field is a column: a head, then nothing or a range sign and a number.
IsColumn(fld) ==
    /\ Len(fld) >= 1
    /\ \/ fld[1] = Ch("*")
       \/ IsNum(fld[1])
       \/ fld[1] \in {Ch("+"), Ch("-")} /\ Len(fld) >= 2 /\ IsNum(fld[2])
    /\ \/ Len(fld) = HeadLen(fld)
       \/ /\ Len(fld) = HeadLen(fld) + 2
          /\ fld[HeadLen(fld) + 1] \in {Ch("+"), Ch("-"), Ch(":")}
          /\ IsNum(fld[HeadLen(fld) + 2])

\* The column a field spells.
ColumnOf(fld) ==
    LET h == HeadLen(fld)
    IN  Col(IF fld[1] = Ch("*") THEN "*"
            ELSE IF IsNum(fld[1]) THEN "lit" ELSE fld[1][1],
            IF fld[1] = Ch("*") THEN 0
            ELSE IF IsNum(fld[1]) THEN fld[1][2] ELSE fld[2][2],
            IF Len(fld) = h THEN "none" ELSE fld[h + 1][1],
            IF Len(fld) = h THEN 0 ELSE fld[h + 2][2])

\* The index of the field that holds the line column of the last line.
LineField == IF hasAddrInfo THEN 2 ELSE 1

LastFields == Fields(hist.ln)

\* The last line is an accepted position line with a well-formed column
\* in every position field the header declares.
LastIsPosition ==
    /\ hist.kind = "position" /\ hist.accepted
    /\ hasAddrInfo => IsColumn(LastFields[1])
    /\ hasLineInfo => Len(LastFields) >= LineField /\ IsColumn(LastFields[LineField])

\* C6: a line column "-N" whose N exceeds the cursor line gives
\* fromLine = toLine = 0.
C6_UnderflowClampsToZero ==
    (/\ LastIsPosition /\ hasLineInfo
     /\ ColumnOf(LastFields[LineField]).head = "-"
     /\ ColumnOf(LastFields[LineField]).range = "none"
     /\ ColumnOf(LastFields[LineField]).k > hist.prePos.fromLine)
        => currentPos.fromLine = 0 /\ currentPos.toLine = 0

\* The from value a column gives against the from value cfrom.
FromOf(c, cfrom, mod) ==
    CASE c.head = "*" -> cfrom
      [] c.head = "+" -> (cfrom + c.k) % mod
      [] c.head = "-" -> (cfrom - c.k) % mod
      [] c.head = "lit" -> c.k

\* The to value a column gives: the from value just decoded, the cursor's
\* to value for a bare "*", from + d for "+d", the value for "-V" and ":V".
ToOf(c, from, cto, mod) ==
    CASE c.range = "none" -> IF c.head = "*" THEN cto ELSE from
      [] c.range = "+" -> (from + c.d) % mod
      [] c.range \in {"-", ":"} -> c.d

\* The columns of the last line give currentPos by the column arithmetic
\* taken against the position base; a "-k" line column with k above the
\* base line is left out (C6).
ColumnArithmetic(base) ==
    LastIsPosition =>
        /\ hasAddrInfo =>
             LET c == ColumnOf(LastFields[1])
                 from == FromOf(c, base.fromAddr, AddrMod)
             IN  /\ currentPos.fromAddr = from
                 /\ currentPos.toAddr = ToOf(c, from, base.toAddr, AddrMod)
        /\ hasLineInfo =>
             LET c == ColumnOf(LastFields[LineField])
                 from == FromOf(c, base.fromLine, UIntMod)
             IN  (c.head = "-" => c.k <= base.fromLine)
                    => /\ currentPos.fromLine = from
                       /\ currentPos.toLine = ToOf(c, from, base.toLine, UIntMod)

\* The arithmetic taken against the cursor the parser read.
ColumnArithmeticOnCursor == ColumnArithmetic(hist.prePos)

\* C7: each column of an accepted position line is decoded by the column
\* arithmetic ("*", "+k", "-k", literal; range "+d", "-V", ":V"), the
\* relative forms being taken against the cursor left by the previous
\* accepted position line.
C7_ColumnArithmetic == ColumnArithmetic(hist.preAccepted)

\* ------------------------------------------------------------------ C8

\* C8: the pending record type is SelfCost initially; calls= makes it
\* CallCost, a valid jump= BoringJump, a valid jcnd= CondJump; once an
\* accepted position and cost line has been handled it is SelfCost again.
C8_PendingTypeIsOneShot ==
    /\ hist.kind = "none" => nextLineType = SelfCost
    /\ hist.kind = "calls" => nextLineType = CallCost
    /\ (hist.kind = "jump" /\ hist.accepted) => nextLineType = BoringJump
    /\ (hist.kind = "jcnd" /\ hist.accepted) => nextLineType = CondJump
    /\ (hist.kind = "position" /\ hist.accepted /\ ~hist.preNull)
           => nextLineType = SelfCost

\* ------------------------------------------------------------------ C9

\* The sum of the line costs and of the instruction costs of a function.
LineSum(fn) == SumOver(lineCost, {k \in DOMAIN lineCost : k.fn = fn})

InstrSum(fn) == SumOver(instrCost, {k \in DOMAIN instrCost : k.fn = fn})

\* C9: when every self-cost line was read with both position columns
\* present, the line costs of each function sum to what its instruction
\* costs sum to, also when a fn= or fl= line switches function or file
\* and the next cost line carries the same address.
C9_LineSumEqualsInstrSum ==
    ~hist.mixed => \A fn \in CostFunctions : LineSum(fn) = InstrSum(fn)

\* ----------------------------------------------------------------- C10

\* C10: a load that reaches the end of input without a "summary:" line
\* returns true with the part invalidated and the totals equal to the
\* sum of the part's costs.
C10_TotalsRecomputedAtEnd ==
    (hist.kind = "eof" /\ ~hist.summary)
        => /\ result = "true"
           /\ ~partValid
           /\ totals = PartCost

\* A load with self cost in two functions ended without a summary line.
C10_Witness ==
    /\ hist.kind = "eof" /\ ~hist.summary
    /\ Cardinality(CostFunctions) = 2
    /\ Len(totals) = 1 /\ totals[1] > 0

\* ----------------------------------------------------------------- C11

\* C11: when a "summary:" line was read, the totals it set are still the
\* part's totals when the load returns true: the end of input leaves
\* them as they are.
C11_SummaryTotalsKept ==
    [][ (hist.summary /\ result = "loading" /\ result' = "true")
            => totals' = totals ]_vars

\* ----------------------------------------------------------------- C12

\* The call projections a step has created or changed.
ChangedCalls ==
    {k \in DOMAIN callCost' : k \notin DOMAIN callCost \/ callCost'[k] # callCost[k]}

CountBefore(k) == IF k \in DOMAIN callCost THEN callCost[k].count ELSE 0

\* A cost line has been handled in the CallCost branch.
CallCostHandled == nextLineType = CallCost /\ nextLineType' = SelfCost

\* What a cost line handled as CallCost does without USE_FIXCOST: the
\* projections it touches belong to edges from the current function, to a
\* function that exists when definedCallee is asked for; each gets the
\* stored call count; there is an instruction-call projection when
\* addresses are present and a line-call projection when lines are.
PlainCallAttribution(definedCallee) ==
    /\ ChangedCalls # {}
    /\ \A k \in ChangedCalls :
          /\ k.caller = currentFunction'
          /\ definedCallee => k.callee # NoFn
          /\ callCost'[k].count = CountBefore(k) + currentCallCount
    /\ hasAddrInfo <=> (\E k \in ChangedCalls : ~k.instr.null)
    /\ hasLineInfo <=> (\E k \in ChangedCalls : ~k.line.null)

\* The same with USE_FIXCOST: one FixCallCost record is added, for the
\* edge and with the count, at the line and/or address of the cost line.
FixCallAttribution(definedCallee) ==
    /\ Len(fixCallCosts') = Len(fixCallCosts) + 1
    /\ SubSeq(fixCallCosts', 1, Len(fixCallCosts)) = fixCallCosts
    /\ LET rec == fixCallCosts'[Len(fixCallCosts')]
       IN  /\ rec.partCalling.caller = currentFunction'
           /\ definedCallee => rec.partCalling.callee # NoFn
           /\ rec.count = currentCallCount
           /\ rec.line = IF hasLineInfo THEN currentPos'.fromLine ELSE 0
           /\ rec.addr = IF hasAddrInfo THEN currentPos'.fromAddr ELSE 0

CallAttribution(definedCallee) ==
    CallCostHandled =>
        /\ IF USE_FIXCOST THEN FixCallAttribution(definedCallee)
           ELSE PlainCallAttribution(definedCallee)
        /\ currentCallCount' = 0

\* The attribution without the requirement on the callee.
CallAttributionToAnyCallee == [][CallAttribution(FALSE)]_vars

\* C12: every cost line handled with pending type CallCost is attributed
\* to an edge from the current function to a defined function, also when
\* no cfn= line preceded the calls= line; the count of the last calls= or
\* rcalls= line is added to the edge's instruction-call and/or line-call
\* projection, and the stored count is then 0.
C12_CallCostAttributedToDefinedCallee == [][CallAttribution(TRUE)]_vars

\* ----------------------------------------------------------------- C13

\* A cost line has been handled in the jump branch.
JumpHandled == nextLineType \in {BoringJump, CondJump} /\ nextLineType' = SelfCost

\* What a cost line handled as a jump records: one jump from the position
\* of the cost line, to the target and with the counters of armed, flagged
\* conditional exactly for CondJump, into the function jfn= set or else
\* the current function.
JumpRecorded(armed) ==
    JumpHandled =>
        /\ Len(fixJumps') = Len(fixJumps) + 1
        /\ SubSeq(fixJumps', 1, Len(fixJumps)) = fixJumps
        /\ LET rec == fixJumps'[Len(fixJumps')]
           IN  /\ rec.line = IF hasLineInfo THEN currentPos'.fromLine ELSE 0
               /\ rec.addr = IF hasAddrInfo THEN currentPos'.fromAddr ELSE 0
               /\ rec.targetLine = IF hasLineInfo THEN armed.target.fromLine ELSE 0
               /\ rec.targetAddr = IF hasAddrInfo THEN armed.target.fromAddr ELSE 0
               /\ rec.executed = armed.executed
               /\ nextLineType = CondJump => rec.followed = armed.followed
               /\ rec.isCondJump = (nextLineType = CondJump)
               /\ rec.targetFunction = IF currentJumpToFunction = NoFn
                                       THEN currentFunction'
                                       ELSE currentJumpToFunction

\* The target position and counters the loader holds when the cost line
\* is read.
HeldJump ==
    [target |-> targetPos, executed |-> jumpsExecuted, followed |-> jumpsFollowed]

\* A build with USE_FIXCOST records the jump the loader holds.
HeldJumpRecordedWithFixCost == [][USE_FIXCOST => JumpRecorded(HeldJump)]_vars

\* A build with USE_FIXCOST records the jump of the last valid jump line.
ArmedJumpRecordedWithFixCost == [][USE_FIXCOST => JumpRecorded(hist.jump)]_vars

\* C13: a cost line handled with pending type BoringJump or CondJump
\* records a jump from the position of the cost line to the target
\* position of the preceding jump= or jcnd= line, with the counters of
\* that line, conditional exactly for CondJump, into the function set by
\* jfn= since the last jump record or else the current function.
C13_JumpRecorded == [][JumpRecorded(hist.jump)]_vars

\* ----------------------------------------------------------------- C14

\* The line just read was a cost line that reached attribution: its
\* position was accepted and an event schema was set.
CostLineAttributed ==
    hist.kind = "position" /\ hist.accepted /\ ~NoEventLine(subMapping)

\* ensureFunction (line 1065): the current function is set at attribution.
FunctionSetAtAttribution == CostLineAttributed => currentFunction # NoFn

\* C14: whenever a cost line is attributed, the current function, the
\* current file and the current object are all set, a never declared or
\* cleared one having been replaced by the '???' dummy.
C14_CursorSetAtAttribution ==
    CostLineAttributed =>
        /\ currentFunction # NoFn
        /\ currentFile # NULL
        /\ currentObject # NULL

\* ----------------------------------------------------------------- C15

\* The functions the dictionary can hand out again, and those whose object
\* was filled in.
KnownFunctions ==
    { functionVector.slots[i] : i \in DOMAIN functionVector.slots }
        \cup DOMAIN functionObject

\* The object a function line resolves its value with: the current object
\* for fn= and jfn=, the called object for cfn=.
ContextObject ==
    CASE hist.kind = "function" -> currentObject
      [] hist.kind = "calledFunction" -> currentCalledObject
      [] hist.kind = "jumpFunction" -> currentObject
      [] OTHER -> NULL

\* The last line resolved a function reference (N) and the loader went on.
LastResolvedReference ==
    /\ Namespace(hist.kind) = "functions"
    /\ LastIsReference
    /\ hist.resFn # NoFn
    /\ result # "crashed"

LastFunction == hist.resFn

\* C15: a function's object is write-once: resolving a reference (N) with
\* an object fills in the object of a function that has none, and no line
\* changes the object of a function that has one (a mismatch leaves the
\* first object).
C15_ObjectWriteOnce ==
    [][ /\ \A fn \in KnownFunctions :
              objectOf(fn, functionObject) # NULL
                  => objectOf(fn, functionObject') = objectOf(fn, functionObject)
        /\ (LastResolvedReference' /\ ContextObject' # NULL
                /\ objectOf(LastFunction', functionObject) = NULL)
              => objectOf(LastFunction', functionObject') = ContextObject'
      ]_vars

\* A reference (N) to a function defined without an object was resolved
\* with an object, which the function now has.
C15_Witness ==
    /\ LastResolvedReference
    /\ hist.resFn.object = NULL
    /\ ContextObject # NULL
    /\ objectOf(hist.resFn, functionObject) = ContextObject

\* A reference (N) was resolved with an object other than the one the
\* function has.
ObjectMismatchSeen ==
    /\ LastResolvedReference
    /\ ContextObject # NULL
    /\ objectOf(hist.resFn, functionObject) \notin {NULL, ContextObject}

\* The mismatch report dereferenced a null object and the process ended.
NullObjectCrashSeen == result = "crashed"

\* ----------------------------------------------------------------- C16

\* What call c finds in its loader.
LoaderSeenBy(c) == loaders[loaderOf(c)]

\* C16: a loadTrace call starts with empty compression tables, a cleared
\* cursor and pending type SelfCost, and while it is loading no step of
\* another call changes the tables, the cursor or the pending type it
\* finds.
C16_LoadsAreIsolated ==
    [][ \A c \in Calls :
          /\ (callState[c] = "idle" /\ callState'[c] = "loading")
                => /\ DOMAIN LoaderSeenBy(c)'.objectVector.slots = {}
                   /\ DOMAIN LoaderSeenBy(c)'.fileVector.slots = {}
                   /\ DOMAIN LoaderSeenBy(c)'.functionVector.slots = {}
                   /\ LoaderSeenBy(c)'.currentObject = NULL
                   /\ LoaderSeenBy(c)'.currentFile = NULL
                   /\ LoaderSeenBy(c)'.currentFunction = NoFn
                   /\ LoaderSeenBy(c)'.nextLineType = SelfCost
          /\ (callState[c] = "loading" /\ lastCall' # c)
                => LoaderSeenBy(c)' = LoaderSeenBy(c)
      ]_vars

\* Call 1 has defined object id 1, set its cursor and armed CallCost, then
\* call 2 started and read a line, and finds id 1 undefined, and its cursor
\* and pending type its own.
C16_Witness ==
    /\ callState[1] = "loading" /\ callState[2] = "loading"
    /\ lastCall = 2
    /\ 1 \in DOMAIN LoaderSeenBy(1).objectVector.slots
    /\ LoaderSeenBy(1).nextLineType = CallCost
    /\ LoaderSeenBy(2).lineNo = 1
    /\ DOMAIN LoaderSeenBy(2).objectVector.slots = {}
    /\ LoaderSeenBy(2).currentObject = object(Dummy)
    /\ LoaderSeenBy(2).nextLineType = SelfCost

\* ----------------------------------------------------------------- C17

\* C17: once cancellation has been requested the loader reads no further
\* line and the load does not end with success.
C17_CancelStopsLoad ==
    [][ hist.cancel => (lineNo' = lineNo /\ result' # "true") ]_vars

\* ----------------------------------------------------------------- C18

\* C18: once an "events:" line has been read, the event schema that cost
\* vectors are read with and that the part carries is the same after every
\* later line, a later "events:" line included.
C18_SchemaFixedByFirstEvents ==
    [][ ~subMapping.null => subMapping' = subMapping ]_vars

\* ----------------------------------------------------------------- C19

\* The line just read begins with "#".
LastIsComment == Len(hist.ln) > 0 /\ hist.ln[1] = Ch("#")

\* The line just read is empty.
LastIsEmpty == lineNo > 0 /\ Len(hist.ln) = 0

\* The load goes on with the cursor, the pending record type, the
\* dictionary, the call and jump cursors and all costs as they were.
NothingChanged ==
    /\ result' = "loading"
    /\ UNCHANGED <<subMapping, nextLineType, posVars, curVars, callVars,
                   jumpVars, dictVars, costVars, fixVars>>

\* An empty line changes nothing.
EmptyLineChangesNothing ==
    [][ (lineNo' = lineNo + 1 /\ LastIsEmpty') => NothingChanged ]_vars

\* A "#" line changes nothing when a position has a column.
CommentChangesNothingWithColumns ==
    [][ (lineNo' = lineNo + 1 /\ LastIsComment' /\ (hasAddrInfo \/ hasLineInfo))
            => NothingChanged ]_vars

\* C19: a line beginning with "#" and an empty line change nothing, for
\* every hasAddrInfo/hasLineInfo and every pending record type, and the
\* load does not abort on them.
C19_CommentAndEmptyLineChangeNothing ==
    [][ (lineNo' = lineNo + 1 /\ (LastIsComment' \/ LastIsEmpty'))
            => NothingChanged ]_vars

\* ----------------------------------------------------------------- C20

\* After a cost line handled as CallCost the called object and the called
\* file are unset.
CalledObjectAndFileCleared ==
    [][ CallCostHandled
            => (currentCalledObject' = NULL /\ currentCalledFile' = NULL) ]_vars

\* C20: after a cost line has been handled with pending type CallCost the
\* called object, the called file and the called function are all unset.
C20_CallTargetCleared ==
    [][ CallCostHandled
            => /\ currentCalledObject' = NULL
               /\ currentCalledFile' = NULL
               /\ currentCalledFunction' = NoFn ]_vars

\* ----------------------------------------------------------------- C21

\* The line just read is fn= or fl=/fi=/fe=.
LastSetFunctionOrFile == hist.kind \in {"function", "file"}

\* After fn= and after fl=/fi=/fe= the current line is unset.
LineUnsetAfterFunctionOrFile == LastSetFunctionOrFile => currentLine.null

\* C21: after fn= and after fl=/fi=/fe= both the current line and the
\* current instruction are unset, so that the next cost line looks both up
\* in the then-current function and file.
C21_LineAndInstrUnset ==
    LastSetFunctionOrFile => (currentLine.null /\ currentInstr.null)

\* ----------------------------------------------------------------- C22

LastIsObject == hist.kind = "object"

LastIsFunction == hist.kind = "function"

\* Every cost the step adds goes to an entity of function fn: the
\* instructions, lines and call projections whose cost changed, and the
\* records constructed.
CostGoesTo(fn) ==
    /\ \A k \in DOMAIN instrCost' :
          (k \notin DOMAIN instrCost \/ instrCost'[k] # instrCost[k]) => k.fn = fn
    /\ \A k \in DOMAIN lineCost' :
          (k \notin DOMAIN lineCost \/ lineCost'[k] # lineCost[k]) => k.fn = fn
    /\ \A k \in ChangedCalls :
          /\ k.caller = fn
          /\ k.instr.null \/ k.instr.fn = fn
          /\ k.line.null \/ k.line.fn = fn
    /\ \A i \in (Len(fixCosts) + 1)..Len(fixCosts') :
          fixCosts'[i].partFunction = fn /\ fixCosts'[i].functionSource.fn = fn
    /\ \A i \in (Len(fixCallCosts) + 1)..Len(fixCallCosts') :
          /\ fixCallCosts'[i].partCalling.caller = fn
          /\ fixCallCosts'[i].functionSource.fn = fn
    /\ \A i \in (Len(fixJumps) + 1)..Len(fixJumps') :
          fixJumps'[i].partFunction = fn /\ fixJumps'[i].source.fn = fn

\* ob= clears the current function and leaves file and position; fn=
\* leaves the object and the file set.
ObjectAndFunctionLineFrame ==
    [][ /\ (lineNo' = lineNo + 1 /\ LastIsObject')
              => /\ currentFunction' = NoFn
                 /\ currentFile' = currentFile
                 /\ currentPos' = currentPos
        /\ (lineNo' = lineNo + 1 /\ LastIsFunction')
              => /\ currentObject' # NULL /\ currentFile' # NULL
                 /\ currentObject # NULL => currentObject' = currentObject
                 /\ currentFile # NULL => currentFile' = currentFile
      ]_vars

\* C22: ob= clears the current function and leaves the current file and
\* position; a cost line right after ob= is attributed to the '???'
\* function and not to the function current before ob=; fn= clears
\* neither the current object nor the current file.
C22_ObjectLineClearsFunction ==
    [][ /\ (lineNo' = lineNo + 1 /\ LastIsObject')
              => /\ currentFunction' = NoFn
                 /\ currentFile' = currentFile
                 /\ currentPos' = currentPos
        /\ (lineNo' = lineNo + 1 /\ LastIsFunction')
              => /\ currentObject' # NULL /\ currentFile' # NULL
                 /\ currentObject # NULL => currentObject' = currentObject
                 /\ currentFile # NULL => currentFile' = currentFile
        /\ (LastIsObject /\ CostLineAttributed')
              => CostGoesTo(function(Dummy, NULL, NULL))
      ]_vars

\* ----------------------------------------------------------------- C23

\* After a cost line handled as a jump the jump target cursor is unset.
JumpTargetUnset ==
    JumpHandled => (currentJumpToFile' = NULL /\ currentJumpToFunction' = NoFn)

\* A jump record made while no jfn= has been read since the last one goes
\* into the current function.
JumpDefaultsToCurrentFunction ==
    (JumpHandled /\ currentJumpToFunction = NoFn /\ USE_FIXCOST)
        => fixJumps'[Len(fixJumps')].targetFunction = currentFunction'

\* C23: after a cost line has been handled with pending type BoringJump or
\* CondJump the jump-to file and the jump-to function are unset, and the
\* next jump goes into the current function again.
C23_JumpTargetCleared ==
    [][JumpTargetUnset /\ JumpDefaultsToCurrentFunction]_vars

\* A jump was recorded into the function of a jfn= line, and the cursor is
\* unset after it.
C23_Witness ==
    /\ hist.kind = "position" /\ hist.preType \in {BoringJump, CondJump}
    /\ nextLineType = SelfCost
    /\ currentJumpToFile = NULL /\ currentJumpToFunction = NoFn
    /\ USE_FIXCOST
    /\ Len(fixJumps) = 1
    /\ fixJumps[1].targetFunction = function("g", NULL, NULL)

\* ----------------------------------------------------------------- C24

\* The line just read begins with the character c followed by the text k.
LastBegins(c, k) ==
    Len(hist.ln) >= 2 /\ hist.ln[1] = Ch(c) /\ hist.ln[2] = Ch(k)

\* The keys of the file format, as first character and rest.
KnownKeys ==
    { <<"f", "l=">>, <<"f", "i=">>, <<"f", "e=">>, <<"f", "n=">>,
      <<"c", "ob=">>, <<"c", "fi=">>, <<"c", "fn=">>, <<"c", "alls=">>,
      <<"c", "md:">>, <<"c", "reator:">>,
      <<"j", "cnd=">>, <<"j", "ump=">>, <<"j", "fi=">>, <<"j", "fn=">>,
      <<"o", "b=">>, <<"t", "otals:">>, <<"t", "hread:">>,
      <<"t", "imeframe (BB):">>, <<"d", "esc:">>, <<"e", "vents:">>,
      <<"e", "vent:">>, <<"p", "art:">>, <<"p", "id:">>, <<"p", "ositions:">>,
      <<"v", "ersion:">>, <<"s", "ummary:">>, <<"r", "calls=">> }

\* The line just read starts above '9' and with no known key.
LastHasNoKnownKey ==
    /\ Len(hist.ln) >= 1 /\ GT9(hist.ln[1])
    /\ \A key \in KnownKeys : ~LastBegins(key[1], key[2])

\* The pending record type changes to CallCost, BoringJump, CondJump only
\* on the lines that arm them.
ArmedOnlyByArmingLines ==
    /\ (nextLineType' # nextLineType /\ nextLineType' = CallCost)
          => (LastBegins("c", "alls=")' \/ LastBegins("r", "calls=")')
    /\ (nextLineType' # nextLineType /\ nextLineType' = BoringJump)
          => (LastBegins("j", "ump=")' /\ hist'.accepted)
    /\ (nextLineType' # nextLineType /\ nextLineType' = CondJump)
          => (LastBegins("j", "cnd=")' /\ hist'.accepted)

\* A line with no known key leaves the pending record type, the call count
\* and all cursors.
UnknownKeyChangesNothing ==
    (lineNo' = lineNo + 1 /\ LastHasNoKnownKey')
        => /\ result' = "loading"
           /\ UNCHANGED <<nextLineType, posVars, curVars, callVars, jumpVars>>

\* The jump types are armed only by valid jump= and jcnd= lines.
JumpArmedOnlyByValidLines ==
    [][ /\ (nextLineType' # nextLineType /\ nextLineType' = BoringJump)
              => (LastBegins("j", "ump=")' /\ hist'.accepted)
        /\ (nextLineType' # nextLineType /\ nextLineType' = CondJump)
              => (LastBegins("j", "cnd=")' /\ hist'.accepted) ]_vars

\* C24: the pending record type changes to CallCost only on a calls= or
\* rcalls= line, to BoringJump only on a valid jump= line, to CondJump only
\* on a valid jcnd= line; a line above '9' with no known key leaves the
\* pending record type, the call count and all cursors unchanged.
C24_ArmingLinesOnly ==
    [][ArmedOnlyByArmingLines /\ UnknownKeyChangesNothing]_vars

\* A line that reaches the warning after the switch changes nothing.
LastIsInvalid == hist.kind = "invalid"

InvalidLineChangesNothing ==
    [][ (lineNo' = lineNo + 1 /\ LastIsInvalid')
            => /\ result' = "loading"
               /\ UNCHANGED <<nextLineType, posVars, curVars, callVars, jumpVars>>
      ]_vars

\* ----------------------------------------------------------------- C25

\* The line just read is a jcnd= or jump= line that was found invalid.
LastIsMalformedJump == hist.kind \in {"jcnd", "jump"} /\ ~hist.accepted

\* The cost line just read went through one of the three branches (it did
\* not end at the invalid address of line 1085).
CostLineHandled ==
    CostLineAttributed /\ (USE_FIXCOST \/ ~hasAddrInfo \/ ~currentInstr.null)

\* The cost line of the step was handled in the branch of pending type t.
HandledAs(t) ==
    CASE t = SelfCost ->
           /\ nextLineType' = SelfCost
           /\ UNCHANGED <<callVars, jumpVars, callCost, fixCallCosts, fixJumps>>
           /\ USE_FIXCOST => Len(fixCosts') = Len(fixCosts) + 1
      [] t = CallCost ->
           /\ nextLineType' = SelfCost
           /\ currentCallCount' = 0
           /\ UNCHANGED <<jumpVars, fixCosts, fixJumps, instrCost, lineCost>>
           /\ USE_FIXCOST => Len(fixCallCosts') = Len(fixCallCosts) + 1
           /\ ~USE_FIXCOST => ChangedCalls # {}
      [] OTHER ->
           /\ nextLineType' = SelfCost
           /\ currentJumpToFile' = NULL /\ currentJumpToFunction' = NoFn
           /\ UNCHANGED <<callVars, fixCosts, fixCallCosts, instrCost, lineCost,
                          callCost>>
           /\ USE_FIXCOST =>
                 /\ Len(fixJumps') = Len(fixJumps) + 1
                 /\ fixJumps'[Len(fixJumps')].isCondJump = (t = CondJump)

\* C25: a malformed jcnd= or jump= line leaves the pending record type as
\* it was and does not end the load, and the cost line that follows is
\* handled according to that pending type.
C25_MalformedJumpDoesNotArm ==
    [][ /\ (lineNo' = lineNo + 1 /\ LastIsMalformedJump')
              => (nextLineType' = nextLineType /\ result' = "loading")
        /\ (LastIsMalformedJump /\ lineNo' = lineNo + 1 /\ CostLineHandled')
              => HandledAs(hist.preType)
      ]_vars

\* A jcnd= line without "/" was read while CallCost was pending, and
\* CallCost is still pending.
C25_Witness ==
    /\ LastIsMalformedJump
    /\ hist.kind = "jcnd"
    /\ hist.preType = CallCost
    /\ nextLineType = CallCost
    /\ ~subMapping.null
    /\ result = "loading"

\* ----------------------------------------------------------------- C26

\* The last line is an entity-binding line whose value is the definition
\* "(N) name".
LastIsDefinition ==
    /\ Namespace(hist.kind) # "none"
    /\ IsDef(Classify(hist.ln).rest)

\* The compression table of a namespace.
TableOf(ns) ==
    CASE ns = "objects" -> objectVector
      [] ns = "files" -> fileVector
      [] ns = "functions" -> functionVector

NullOfNamespace(ns) == IF ns = "functions" THEN NoFn ELSE NULL

\* What a reference (M) of a namespace resolves to (lines 370-377,
\* 414-421, 470-477): null beyond the size and for an empty slot.
ResolutionOf(ns, M) ==
    IF TableOf(ns).size <= M THEN NullOfNamespace(ns)
    ELSE VecAt(TableOf(ns), M, NullOfNamespace(ns))

Namespaces == {"objects", "files", "functions"}

\* The ids the lines use, and the first ids beyond the initial sizes.
TableIds == {1, 2, ObjVecSize, FileVecSize, FnVecSize}

\* C26: a definition "(N) name" on an object, file or function line leaves
\* the other two compression tables as they were, and in its own table the
\* resolution of every reference (M) with M # N is unchanged.
C26_TablesAreIndependent ==
    [][ LastIsDefinition' =>
          \A ns \in Namespaces :
              /\ ns # LastNamespace' => TableOf(ns)' = TableOf(ns)
              /\ \A M \in TableIds :
                     (ns # LastNamespace' \/ M # LastId')
                         => ResolutionOf(ns, M)' = ResolutionOf(ns, M) ]_vars

\* A definition of the first id beyond the initial size of the object
\* table made the table grow while it held id 1 and while the file table
\* held id 1 as well.
C26_Witness ==
    /\ hist.kind = "object" /\ LastIsDefinition /\ LastId = ObjVecSize
    /\ objectVector.size = 2 * ObjVecSize
    /\ 1 \in DOMAIN objectVector.slots
    /\ 1 \in DOMAIN fileVector.slots

\* ----------------------------------------------------------------- C27

\* The percent of the bytes consumed, as line 783 rounds it.
PercentConsumed == IF fileLen = 0 THEN 0 ELSE progressOf(fileCurrent, fileLen)

RECURSIVE NonDecreasing(_)
NonDecreasing(s) ==
    Len(s) < 2 \/ (s[1] <= s[2] /\ NonDecreasing(Tail(s)))

\* A signal is emitted on every step that changes the percent consumed.
EmittedWheneverPercentChanges ==
    [][ (StatusStarted /\ PercentConsumed' # PercentConsumed)
            => Len(emitted') = Len(emitted) + 1 ]_vars

\* The emitted percents start with 0 and never decrease.
EmittedNonDecreasingFromZero ==
    StatusStarted => (emitted[1] = 0 /\ NonDecreasing(emitted))

\* A load that returned true has emitted 100 last.
TrueLoadEndsWith100 ==
    (StatusStarted /\ result = "true") => emitted[Len(emitted)] = 100

\* On an fn= line the signal is emitted exactly when the rounded percent
\* differs from the one last emitted, and with that percent.
EmittedOnFunctionLines ==
    [][ (StatusStarted /\ lineNo' = lineNo + 1 /\ LastIsFunction')
            => IF PercentConsumed' # statusProgress
               THEN emitted' = Append(emitted, PercentConsumed')
               ELSE emitted' = emitted ]_vars

\* C27: a progress signal is emitted whenever the integer percent of the
\* bytes consumed changes; the emitted percents start with 0 and never
\* decrease, and a load that returns true ends with the percent 100.
C27_ProgressEvents ==
    /\ EmittedWheneverPercentChanges
    /\ []EmittedNonDecreasingFromZero
    /\ []TrueLoadEndsWith100

\* A load returned true after the percent had changed on an empty line.
C27_PercentChangedSilently ==
    /\ StatusStarted /\ result = "true"
    /\ fileLen > 0
    /\ Len(emitted) = 2

\* ----------------------------------------------------------------- C28

LastIsJumpLine == hist.kind \in {"jcnd", "jump"}

\* The index of the last space of a line, 0 when it has none.
RECURSIVE LastSpace(_, _)
LastSpace(ln, i) ==
    IF i = 0 THEN 0 ELSE IF ln[i] = SP THEN i ELSE LastSpace(ln, i - 1)

\* The target of the jump line just read: what follows its last space.
LastTarget == SubSeq(hist.ln, LastSpace(hist.ln, Len(hist.ln)) + 1, Len(hist.ln))

\* The one column of a target is an address after "positions: instr" and a
\* line number otherwise.
ColumnFrom(pos) == IF hasAddrInfo THEN pos.fromAddr ELSE pos.fromLine
ColumnTo(pos) == IF hasAddrInfo THEN pos.toAddr ELSE pos.toLine
ColumnMod == IF hasAddrInfo THEN AddrMod ELSE UIntMod

\* The target is "*", "+N", or "-N" with N not above the line number of
\* the cursor.
TargetIsRelative ==
    \/ LastTarget[1] \in {Ch("*"), Ch("+")}
    \/ LastTarget[1] = Ch("-") /\ LastTarget[2][2] <= ColumnFrom(hist.prePos)

\* The target resolved against the position cur.
TargetFrom(cur) ==
    CASE LastTarget[1] = Ch("*") -> ColumnFrom(cur)
      [] LastTarget[1] = Ch("+") -> (ColumnFrom(cur) + LastTarget[2][2]) % ColumnMod
      [] LastTarget[1] = Ch("-") -> (ColumnFrom(cur) - LastTarget[2][2]) % ColumnMod
      [] OTHER -> LastTarget[1][2]

TargetTo(cur) == IF LastTarget[1] = Ch("*") THEN ColumnTo(cur) ELSE TargetFrom(cur)

\* C28: a jump= or jcnd= line, valid or not, leaves the source cursor
\* currentPos as it was; the target of a valid line is written to targetPos,
\* and a "*", "+N" or "-N" target is resolved against currentPos as it is
\* at the jump line, not against what targetPos held before.
C28_JumpTargetParsedApart ==
    LastIsJumpLine =>
        /\ currentPos = hist.prePos
        /\ hist.accepted =>
              /\ targetPos = hist.jump.target
              /\ TargetIsRelative =>
                    /\ ColumnFrom(targetPos) = TargetFrom(hist.prePos)
                    /\ ColumnTo(targetPos) = TargetTo(hist.prePos)

\* A valid jump line with the target "+3" was read while the cursor and
\* the target of the jump line before it were at different lines, and the
\* target is three lines behind the cursor.
C28_Witness ==
    /\ LastIsJumpLine /\ hist.accepted
    /\ LastTarget = <<Ch("+"), Num(3)>>
    /\ ~hasAddrInfo
    /\ hist.prePos.fromLine = 10
    /\ hist.preTarget.fromLine = 20
    /\ targetPos.fromLine = 13

=============================================================================
